---- MODULE Spec2Model ----
(***************************************************************************)
(* PLAYALTER platform orchestrator (src/backend/platform_orchestrator.py). *)
(*                                                                         *)
(* One PlatformOrchestrator object serving calls one after another.  An    *)
(* action is the code between two awaits of a call: a platform adapter is  *)
(* called, time passes while the call is awaited, and the code up to the   *)
(* next await runs.  Time is counted in milliseconds.                      *)
(***************************************************************************)
EXTENDS Integers, Sequences, FiniteSets, TLC

(* ---------------------------------------------------------------- bounds *)

\* Calls served by the orchestrator in one behaviour.
MaxRuns == 2
\* Wall clock readings explored: 0 .. MaxClock milliseconds.
MaxClock == 1000
\* Time an awaited call may take: nothing measurable, or AwaitMs.
AwaitMs == 500
\* Payload lengths explored: the multiples of SizeStep up to
\* MaxSizeSteps * SizeStep, and the lengths next to each threshold.
MaxSizeSteps == 120

(* ------------------------------------------------------ program constants *)

\* time.time() counts seconds; the code multiplies differences by 1000.
MsPerSecond == 1000

\* Marks a value a dict does not hold (dict.get returning None).
NoTime == -1

Platforms == {"n8n", "stripe", "vercel", "openai", "grok", "replicate", "agora"}

KnownWorkflows ==
    {"face_swap_payment", "user_onboarding", "live_stream_setup",
     "ai_content_generation"}

WorkflowNames == KnownWorkflows \cup {"unknown_name"}

Delays == {0, AwaitMs}

(* ------------------------------------------------------------------ state *)

VARIABLES
    config,        \* platform -> enabled, read-only after load_configuration
    adapters,      \* "source": the repository's adapters; "stubbed": test doubles
    now,           \* wall clock, ms
    runs,          \* calls served so far
    issued,        \* workflow ids given out by orchestrate_workflow, in order
    pc,            \* position of the call being served
    call,          \* the call being served: its name and its input
    workflow_id,   \* local workflow_id of the call
    start_time,    \* local start_time of the call
    steps,         \* local steps list of a sequential workflow
    bound,         \* local result variables assigned so far
    calls,         \* adapters called by this call, in order
    escaped,       \* exceptions that reached the outermost handler of the call
    absorbed,      \* exceptions caught inside a step of the call
    raised,        \* the call raised to its caller
    result,        \* what the call returned
    mask_options,  \* MaskOptions of orchestrate_mask_stream
    decision,      \* AgentDecision of orchestrate_mask_stream
    replicate_result, \* step entry of the processing step
    agora_result,  \* step entry of the streaming-setup step
    app_certificate, \* config["agora"]["app_certificate"] is set
    health_status, \* self.health_status: platform -> PlatformHealth
    hc,            \* position of health_check_all
    tasks,         \* platform -> position of its probe in the running gather
    responses,     \* platform -> what the network answered to its probe
    health_results, \* platform -> PlatformHealth returned by its probe
    requested,     \* platforms a probe has sent a network request to
    written,       \* entries the result loop of the running cycle has assigned
    env,           \* app_enhanced.py: which environment variables are set
    http_pc,       \* position of the request being served
    request,       \* the HTTP request being served
    answer,        \* the response of the view function
    external,      \* calls to external providers made for the request
    propagated,    \* an exception left the view function
    attempt,       \* polls made by face_swap
    polled,        \* what the last poll of face_swap came to
    environ,       \* os.environ when PlatformOrchestrator() is constructed
    load_pc,       \* position of load_configuration
    status_report, \* what get_orchestration_status returned last
    input_image,   \* argument of _analyze_image_complexity
    image_analysis \* what _analyze_image_complexity returned

perRun ==
    <<pc, call, workflow_id, start_time, steps, bound, calls, escaped, absorbed,
      raised, result, mask_options, decision, replicate_result, agora_result>>

maskVars == <<mask_options, decision, replicate_result, agora_result>>

healthVars ==
    <<app_certificate, health_status, hc, tasks, responses, health_results,
      requested, written>>

httpVars ==
    <<env, http_pc, request, answer, external, propagated, attempt, polled>>

loadVars == <<environ, load_pc>>

readerVars == <<status_report>>

analysisVars == <<input_image, image_analysis>>

vars ==
    <<config, adapters, now, runs, issued, perRun, healthVars, httpVars,
      loadVars, readerVars, analysisVars>>

(* ------------------------------------------------------------------ values *)

\* get_orchestration_status has not been called.
NoReport ==
    [total |-> 0, enabled |-> 0, connected |-> 0, enabled_platforms |-> {},
     connected_platforms |-> {}, seen |-> <<>>, written |-> {}, pending |-> {}]

NoCall == [fn |-> "none", name |-> "none", is_dict |-> FALSE,
           deploy_result |-> FALSE, process_images |-> FALSE, prompt |-> FALSE,
           input_image |-> "missing", options |-> "missing",
           ethnic |-> "missing", quality |-> "missing", AR |-> "missing"]

NoId == <<"none", 0>>

NoResult ==
    [workflow_id |-> NoId, status |-> "none", reason |-> "none", error |-> "none",
     has_steps |-> FALSE, steps |-> <<>>, processing_time_ms |-> NoTime,
     swapped_url |-> "absent", stream_token |-> "absent"]

NoOptions == [ethnic |-> "unset", quality |-> "unset", AR |-> "unset"]

NoDecision == [action |-> "none", strategy |-> "none", confidence |-> 0,
               reasoning |-> "none"]

NoStep == [agent |-> "none", status |-> "none", error |-> "none",
           swapped_url |-> "absent", stream_token |-> "absent",
           processing_time_ms |-> NoTime, ethnic_preference |-> "unset",
           quality_level |-> "unset", ar_integration |-> "unset",
           video_profile |-> "unset"]

\* int(time.time())
Seconds(t) == t \div MsPerSecond

\* (time.time() - start_time) * 1000
ElapsedMs(start, end) == end - start

RECURSIVE SumMs(_)
\* sum(step["result"].get("processing_time_ms", 0) for step in steps)
SumMs(s) ==
    IF s = <<>> THEN 0
    ELSE (IF Head(s).ms = NoTime THEN 0 ELSE Head(s).ms) + SumMs(Tail(s))

(* --------------------------------------------------------------- adapters *)

Adapters ==
    {"call_stripe_validate_payment", "call_stripe_create_customer",
     "call_replicate_face_swap", "call_replicate_image_processing",
     "call_n8n_trigger", "call_vercel_deploy", "call_vercel_deploy_content",
     "call_agora_generate_token", "call_agora_setup_user",
     "call_openai_generate", "setup_ai_pipeline"}

\* processing_time_ms of the dict each adapter of the repository returns.
MockMs(a) ==
    CASE a = "call_stripe_validate_payment" -> 100
      [] a = "call_stripe_create_customer" -> 200
      [] a = "call_replicate_face_swap" -> 2500
      [] a = "call_replicate_image_processing" -> 1500
      [] a = "call_n8n_trigger" -> 300
      [] a = "call_vercel_deploy" -> 1000
      [] a = "call_vercel_deploy_content" -> 1200
      [] a = "call_agora_generate_token" -> 100
      [] a = "call_agora_setup_user" -> 200
      [] a = "call_openai_generate" -> 1000
      [] a = "setup_ai_pipeline" -> 500

\* What the repository's own adapter does: it sleeps and returns a fixed dict;
\* _call_openai_generate slices its prompt, a TypeError when the prompt is None.
SourceOutcome(a, c) ==
    [raises |-> (a = "call_openai_generate" /\ ~c.prompt),
     error |-> "TypeError", valid |-> TRUE, ms |-> MockMs(a)]

\* What a test double standing in for an adapter may do: raise, or return a dict
\* with or without processing_time_ms, a payment validation with either verdict.
StubTimes == {NoTime, 40}

StubOutcomes(a) ==
    {[raises |-> TRUE, error |-> "AdapterError", valid |-> FALSE, ms |-> NoTime]}
    \cup {[raises |-> FALSE, error |-> "none", valid |-> v, ms |-> m] :
            v \in (IF a = "call_stripe_validate_payment" THEN BOOLEAN ELSE {TRUE}),
            m \in StubTimes}

AdapterOutcomes(a, c) ==
    IF adapters = "source" THEN {SourceOutcome(a, c)} ELSE StubOutcomes(a)

(* ------------------------------------------------- orchestrate_workflow *)

\* The exception classes that occur: all of them subclasses of Exception.
ExceptionClasses ==
    {"ValueError", "AttributeError", "UnboundLocalError", "TypeError",
     "AdapterError"}

\* Mutant: the handler written as `except ValueError`.
handler_catches_value_error_only(err) == err = "ValueError"

\* `except Exception as e`, the outermost handler of both entry points.
handler_catches(err) == err \in ExceptionClasses

\* The dict returned by the except branch of orchestrate_workflow.
workflow_error_result(wid, err, ms) ==
    [workflow_id |-> wid, status |-> "failed", reason |-> "none", error |-> err,
     has_steps |-> FALSE, steps |-> <<>>, processing_time_ms |-> ms,
     swapped_url |-> "absent", stream_token |-> "absent"]

\* The hard stop of _orchestrate_face_swap_payment.
payment_invalid_result(wid, s) ==
    [workflow_id |-> wid, status |-> "failed", reason |-> "payment_invalid",
     error |-> "none", has_steps |-> TRUE, steps |-> s,
     processing_time_ms |-> NoTime,
     swapped_url |-> "absent", stream_token |-> "absent"]

\* The dict a workflow returns when it ran to its end; only
\* _orchestrate_face_swap_payment puts processing_time_ms in it.
completed_result(name, wid, s) ==
    [workflow_id |-> wid, status |-> "completed", reason |-> "none",
     error |-> "none", has_steps |-> TRUE, steps |-> s,
     processing_time_ms |-> IF name = "face_swap_payment" THEN SumMs(s) ELSE NoTime,
     swapped_url |-> "absent", stream_token |-> "absent"]

\* Mutant: the verdict of the validation is not looked at.
payment_never_stops(o) == FALSE

\* if not stripe_result.get("valid")
payment_hard_stop(o) == ~o.valid

\* Mutant: the last elif written as else, so any other name runs the
\* content-generation workflow.
workflow_entry_defaulting(name) ==
    CASE name = "face_swap_payment" -> "fsp_stripe"
      [] name = "user_onboarding" -> "uo_stripe"
      [] name = "live_stream_setup" -> "ls_agora"
      [] OTHER -> "ac_openai"

\* The if/elif chain of orchestrate_workflow: the first position of the
\* workflow, or "unknown" for the raise ValueError of the else branch.
workflow_entry(name) ==
    CASE name = "face_swap_payment" -> "fsp_stripe"
      [] name = "user_onboarding" -> "uo_stripe"
      [] name = "live_stream_setup" -> "ls_agora"
      [] name = "ai_content_generation" -> "ac_openai"
      [] OTHER -> "unknown"

\* An exception reaches `except Exception` of orchestrate_workflow at time t.
WorkflowRaise(err, t, cs) ==
    /\ now' = t
    /\ calls' = cs
    /\ escaped' = err
    /\ IF handler_catches(err)
       THEN /\ result' = workflow_error_result(workflow_id, err,
                                               ElapsedMs(start_time, t))
            /\ raised' = raised
       ELSE /\ result' = result
            /\ raised' = TRUE
    /\ pc' = "done"
    /\ UNCHANGED <<analysisVars, loadVars, readerVars, healthVars, httpVars, config, adapters, runs, issued, call, workflow_id, start_time,
                   steps, bound, absorbed, maskVars>>

\* Mutant: the entry of a step is put in front of the earlier ones.
steps_insert_first(s, entry) == <<entry>> \o s

\* steps.append({"step": ..., "result": ...})
steps_append(s, entry) == Append(s, entry)

\* The platform of a step is disabled, or its flag is unset: nothing is called.
Skip(next) ==
    /\ pc' = next
    /\ UNCHANGED <<analysisVars, loadVars, readerVars, healthVars, httpVars, config, adapters, now, runs, issued, call, workflow_id,
                   start_time, steps, bound, calls, escaped, absorbed, raised,
                   result, maskVars>>

\* await adapter(...); steps.append({"step": stepname, "result": ...}).
Invoke(adapter, stepname, local, next) ==
    \E d \in Delays, o \in AdapterOutcomes(adapter, call) :
        /\ now + d <= MaxClock
        /\ IF o.raises
           THEN WorkflowRaise(o.error, now + d, Append(calls, adapter))
           ELSE /\ now' = now + d
                /\ calls' = Append(calls, adapter)
                /\ steps' = steps_append(steps, [step |-> stepname, ms |-> o.ms,
                                                   valid |-> o.valid])
                /\ bound' = bound \cup {local}
                /\ IF adapter = "call_stripe_validate_payment" /\ payment_hard_stop(o)
                   THEN /\ result' = payment_invalid_result(workflow_id, steps')
                        /\ pc' = "done"
                   ELSE /\ result' = result
                        /\ pc' = next
                /\ UNCHANGED <<analysisVars, loadVars, readerVars, healthVars, httpVars, config, adapters, runs, issued, call, workflow_id,
                               start_time, escaped, absorbed, raised, maskVars>>

\* return {... "status": "completed", "steps": steps ...}
Complete ==
    /\ result' = completed_result(call.name, workflow_id, steps)
    /\ pc' = "done"
    /\ UNCHANGED <<analysisVars, loadVars, readerVars, healthVars, httpVars, config, adapters, now, runs, issued, call, workflow_id,
                   start_time, steps, bound, calls, escaped, absorbed, raised,
                   maskVars>>

\* A step: reads of data (AttributeError when data is no dict) and of earlier
\* results (UnboundLocalError when the step that assigns them was skipped)
\* happen while the arguments are built, before the adapter is called.
Step(enabled, needsData, needs, adapter, stepname, local, next) ==
    IF ~enabled THEN Skip(next)
    ELSE IF needsData /\ ~call.is_dict THEN WorkflowRaise("AttributeError", now, calls)
    ELSE IF ~(needs \subseteq bound) THEN WorkflowRaise("UnboundLocalError", now, calls)
    ELSE Invoke(adapter, stepname, local, next)

\* The return statement of a workflow: it reads earlier results and data too.
Return(needs, needsData) ==
    IF ~(needs \subseteq bound) THEN WorkflowRaise("UnboundLocalError", now, calls)
    ELSE IF needsData /\ ~call.is_dict THEN WorkflowRaise("AttributeError", now, calls)
    ELSE Complete

\* The inputs explored: data that is no dict (None), and dicts holding the
\* fields the workflow reads a truth value or a string from.
WorkflowInputs(name) ==
    {[NoCall EXCEPT !.fn = "orchestrate_workflow", !.name = name]}
    \cup {[NoCall EXCEPT !.fn = "orchestrate_workflow", !.name = name,
                         !.is_dict = TRUE, !.deploy_result = dr,
                         !.process_images = pi, !.prompt = pr] :
            dr \in (IF name = "face_swap_payment" THEN BOOLEAN ELSE {FALSE}),
            pi \in (IF name = "ai_content_generation" THEN BOOLEAN ELSE {FALSE}),
            pr \in (IF name = "ai_content_generation" THEN BOOLEAN ELSE {FALSE})}

\* orchestrate_workflow up to its first await: the id, the start time, the
\* dispatch on the name; an unknown name raises and is answered at once.
orchestrate_workflow ==
    \E name \in WorkflowNames : \E c \in WorkflowInputs(name) :
        /\ pc = "idle"
        /\ runs < MaxRuns
        /\ runs' = runs + 1
        /\ call' = c
        /\ workflow_id' = <<"wf", Seconds(now)>>
        /\ issued' = Append(issued, workflow_id')
        /\ start_time' = now
        /\ IF workflow_entry(name) = "unknown"
           THEN /\ escaped' = "ValueError"
                /\ result' = IF handler_catches("ValueError")
                              THEN workflow_error_result(workflow_id', "ValueError",
                                                         ElapsedMs(now, now))
                              ELSE result
                /\ raised' = ~handler_catches("ValueError")
                /\ pc' = "done"
           ELSE /\ escaped' = escaped
                /\ result' = result
                /\ raised' = raised
                /\ pc' = workflow_entry(name)
        /\ UNCHANGED <<analysisVars, loadVars, readerVars, healthVars, httpVars, config, adapters, now, steps, bound, calls, absorbed,
                       maskVars>>

(* _orchestrate_face_swap_payment *)
fsp_stripe ==
    /\ pc = "fsp_stripe"
    /\ Step(config["stripe"], TRUE, {}, "call_stripe_validate_payment",
            "stripe_validation", "stripe_result", "fsp_replicate")

fsp_replicate ==
    /\ pc = "fsp_replicate"
    /\ Step(config["replicate"], TRUE, {}, "call_replicate_face_swap",
            "face_swap", "replicate_result", "fsp_n8n")

fsp_n8n ==
    /\ pc = "fsp_n8n"
    /\ Step(config["n8n"], TRUE, {"replicate_result"}, "call_n8n_trigger",
            "n8n_trigger", "n8n_result", "fsp_vercel")

\* if self.config["vercel"]["enabled"] and data.get("deploy_result")
fsp_vercel ==
    /\ pc = "fsp_vercel"
    /\ Step(config["vercel"] /\ (~call.is_dict \/ call.deploy_result), TRUE,
            {"replicate_result"}, "call_vercel_deploy", "vercel_deploy",
            "vercel_result", "fsp_return")

fsp_return ==
    /\ pc = "fsp_return"
    /\ Return({"replicate_result"}, FALSE)

(* _orchestrate_user_onboarding *)
uo_stripe ==
    /\ pc = "uo_stripe"
    /\ Step(config["stripe"], TRUE, {}, "call_stripe_create_customer",
            "stripe_customer", "stripe_result", "uo_agora")

uo_agora ==
    /\ pc = "uo_agora"
    /\ Step(config["agora"], TRUE, {}, "call_agora_setup_user", "agora_setup",
            "agora_result", "uo_n8n")

uo_n8n ==
    /\ pc = "uo_n8n"
    /\ Step(config["n8n"], TRUE, {"stripe_result"}, "call_n8n_trigger",
            "n8n_onboarding", "n8n_result", "uo_return")

uo_return ==
    /\ pc = "uo_return"
    /\ Return({"stripe_result"}, TRUE)

(* _orchestrate_live_stream_setup *)
ls_agora ==
    /\ pc = "ls_agora"
    /\ Step(config["agora"], TRUE, {}, "call_agora_generate_token", "agora_token",
            "agora_result", "ls_ai")

ls_ai ==
    /\ pc = "ls_ai"
    /\ Step(config["openai"] /\ config["replicate"], TRUE, {}, "setup_ai_pipeline",
            "ai_pipeline", "ai_result", "ls_n8n")

ls_n8n ==
    /\ pc = "ls_n8n"
    /\ Step(config["n8n"], TRUE, {"agora_result"}, "call_n8n_trigger",
            "n8n_monitoring", "n8n_result", "ls_return")

ls_return ==
    /\ pc = "ls_return"
    /\ Return({"agora_result", "ai_result"}, TRUE)

(* _orchestrate_ai_content_generation *)
ac_openai ==
    /\ pc = "ac_openai"
    /\ Step(config["openai"], TRUE, {}, "call_openai_generate",
            "openai_generation", "openai_result", "ac_replicate")

\* if self.config["replicate"]["enabled"] and data.get("process_images")
ac_replicate ==
    /\ pc = "ac_replicate"
    /\ Step(config["replicate"] /\ (~call.is_dict \/ call.process_images), TRUE,
            {"openai_result"}, "call_replicate_image_processing",
            "replicate_processing", "replicate_result", "ac_vercel")

ac_vercel ==
    /\ pc = "ac_vercel"
    /\ Step(config["vercel"], FALSE, {"openai_result", "replicate_result"},
            "call_vercel_deploy_content", "vercel_deployment", "vercel_result",
            "ac_n8n")

\* vercel_result is read before data: a bound vercel_result implies a dict.
ac_n8n ==
    /\ pc = "ac_n8n"
    /\ Step(config["n8n"], FALSE, {"vercel_result"}, "call_n8n_trigger",
            "n8n_distribution", "n8n_result", "ac_return")

ac_return ==
    /\ pc = "ac_return"
    /\ Return({"openai_result", "replicate_result", "vercel_result"}, FALSE)

(* ------------------------------------------------ orchestrate_mask_stream *)

RecognisedEthnic == {"diverse", "asian", "african", "caucasian", "hispanic"}
RecognisedQuality == {"standard", "high", "ultra"}
RecognisedAR == {"none", "basic", "overlays", "full"}

\* The option dicts explored (ethnic, quality, AR): no key, three recognised
\* values, an unrecognised ethnic alone, an unrecognised quality and AR.
OptionInputs ==
    {<<"missing", "missing", "missing">>, <<"asian", "high", "full">>,
     <<"not-a-real-value", "missing", "missing">>,
     <<"missing", "8k", "hologram">>}

\* The bodies explored: no dict; no input_image or an empty one; an image with
\* no options, with options that are no dict, and with each option dict.
MaskInputs ==
    {[NoCall EXCEPT !.fn = "orchestrate_mask_stream"]}
    \cup {[NoCall EXCEPT !.fn = "orchestrate_mask_stream", !.is_dict = TRUE,
                         !.input_image = i, !.options = o] :
            i \in {"missing", "empty", "image"}, o \in {"missing", "not_dict"}}
    \cup {[NoCall EXCEPT !.fn = "orchestrate_mask_stream", !.is_dict = TRUE,
                         !.input_image = "image", !.options = "dict",
                         !.ethnic = t[1], !.quality = t[2], !.AR = t[3]] :
            t \in OptionInputs}

\* Mutant: only an absent key is refused (`if input_image is None`).
input_image_none_only(c) == c.input_image = "missing"

\* if not input_image, after input_image = body.get("input_image", "")
input_image_missing(c) == c.input_image \in {"missing", "empty"}

\* Mutant: the quality default of the video profiles ("standard") in place of
\* the dataclass default.
MaskOptions_standard_quality(c) ==
    [ethnic |-> IF c.ethnic = "missing" THEN "diverse" ELSE c.ethnic,
     quality |-> IF c.quality = "missing" THEN "standard" ELSE c.quality,
     AR |-> IF c.AR = "missing" THEN "overlays" ELSE c.AR]

\* MaskOptions(ethnic=options.get("ethnic", "diverse"), quality=..., AR=...):
\* the dataclass stores what it is given.
MaskOptions(c) ==
    [ethnic |-> IF c.ethnic = "missing" THEN "diverse" ELSE c.ethnic,
     quality |-> IF c.quality = "missing" THEN "ultra" ELSE c.quality,
     AR |-> IF c.AR = "missing" THEN "overlays" ELSE c.AR]

\* The dict returned by the except branch of orchestrate_mask_stream.
mask_error_result(wid, err, ms) ==
    [workflow_id |-> wid, status |-> "failed", reason |-> "none", error |-> err,
     has_steps |-> FALSE, steps |-> <<>>, processing_time_ms |-> ms,
     swapped_url |-> "absent", stream_token |-> "absent"]

\* Mutant: the total computed as the sum of the two steps' reported times.
mask_total_time_sum(start, end, rr, ar) ==
    rr.processing_time_ms + ar.processing_time_ms

\* processing_time = (time.time() - start_time) * 1000, the
\* total_processing_time_ms of the result.
mask_total_time(start, end, rr, ar) == ElapsedMs(start, end)

\* The result dict of a run that reached its end: status is always "success".
mask_success_result(wid, rr, ar, total) ==
    [workflow_id |-> wid, status |-> "success", reason |-> "none",
     error |-> "none", has_steps |-> FALSE, steps |-> <<>>,
     processing_time_ms |-> total,
     swapped_url |-> rr.swapped_url, stream_token |-> ar.stream_token]

\* orchestrate_mask_stream up to its first await: the id, the start time, the
\* validation of the body and the MaskOptions.
orchestrate_mask_stream ==
    \E c \in MaskInputs :
        /\ pc = "idle"
        /\ runs < MaxRuns
        /\ runs' = runs + 1
        /\ call' = c
        /\ workflow_id' = <<"mask_stream", runs'>>
        /\ start_time' = now
        /\ LET err == IF ~c.is_dict THEN "AttributeError"
                      ELSE IF input_image_missing(c) THEN "ValueError"
                      ELSE IF c.options = "not_dict" THEN "AttributeError"
                      ELSE "none"
           IN IF err # "none"
              THEN /\ escaped' = err
                   /\ result' = IF handler_catches(err)
                                 THEN mask_error_result(workflow_id', err,
                                                        ElapsedMs(now, now))
                                 ELSE result
                   /\ raised' = ~handler_catches(err)
                   /\ pc' = "done"
                   /\ mask_options' = mask_options
              ELSE /\ escaped' = escaped
                   /\ result' = result
                   /\ raised' = raised
                   /\ pc' = "ms_decide"
                   /\ mask_options' = MaskOptions(c)
        /\ UNCHANGED <<analysisVars, loadVars, readerVars, healthVars, httpVars, config, adapters, now, issued, steps, bound, calls,
                       absorbed, decision, replicate_result, agora_result>>

\* confidence of an AgentDecision when the provider's JSON holds none, in percent
DefaultConfidence == 85

NoConfidence == -1

\* What the chat-completion request of _call_openai_decision may come to: a
\* transport error, a timeout, a status other than 200, a 200 whose content is
\* no JSON, a 200 whose body has no choices[0], or a 200 with a JSON object
\* holding a confidence or none.  A test double of the method may also raise.
ProviderOutcomes ==
    {[kind |-> k, confidence |-> NoConfidence] :
        k \in {"transport_error", "timeout", "http_error", "bad_json",
               "bad_envelope"}}
    \cup {[kind |-> "json", confidence |-> c] : c \in {NoConfidence, 90, 150}}
    \cup (IF adapters = "stubbed"
          THEN {[kind |-> "stub_raises", confidence |-> NoConfidence]} ELSE {})

ProviderFailed(o) ==
    o.kind \in {"transport_error", "timeout", "http_error", "bad_envelope"}

\* Mutant: the fallback dict of the except branch keeps the default confidence.
call_openai_decision_full_confidence(o) ==
    IF o.kind = "json"
    THEN [strategy |-> "standard",
          confidence |-> IF o.confidence = NoConfidence THEN DefaultConfidence
                         ELSE o.confidence,
          reasoning |-> "GPT-4o strategic analysis"]
    ELSE IF o.kind = "bad_json"
    THEN [strategy |-> "standard", confidence |-> 80,
          reasoning |-> "GPT-4o analysis (parsed)"]
    ELSE [strategy |-> "fallback", confidence |-> DefaultConfidence,
          reasoning |-> "Fallback due to error"]

\* _call_openai_decision: the dict it returns for an outcome of the request.
call_openai_decision(o) ==
    IF o.kind = "json"
    THEN [strategy |-> "standard",
          confidence |-> IF o.confidence = NoConfidence THEN DefaultConfidence
                         ELSE o.confidence,
          reasoning |-> "GPT-4o strategic analysis"]
    ELSE IF o.kind = "bad_json"
    THEN [strategy |-> "standard", confidence |-> 80,
          reasoning |-> "GPT-4o analysis (parsed)"]
    ELSE [strategy |-> "fallback", confidence |-> 60,
          reasoning |-> "Fallback due to error"]

\* self.master_agent is set by _initialize_agents exactly when openai is enabled.
master_agent == config["openai"]

\* _master_agent_decide with the provider asked: the AgentDecision built from
\* the response, or the one of the except branch when the call raised.
decision_from_provider(o) ==
    IF o.kind = "stub_raises"
    THEN [action |-> "process_safe_mask", strategy |-> "safe", confidence |-> 60,
          reasoning |-> "Error fallback"]
    ELSE [action |-> "process_advanced_mask",
          strategy |-> call_openai_decision(o).strategy,
          confidence |-> call_openai_decision(o).confidence,
          reasoning |-> call_openai_decision(o).reasoning]

\* _master_agent_decide without a master agent.
decision_unavailable ==
    [action |-> "process_standard_mask", strategy |-> "fallback",
     confidence |-> 70, reasoning |-> "Fallback mode - GPT-4o not available"]

\* Step 1: await self._master_agent_decide(...)
master_agent_decide ==
    /\ pc = "ms_decide"
    /\ IF master_agent /\ config["openai"]
       THEN \E d \in Delays, o \in ProviderOutcomes :
               /\ now + d <= MaxClock
               /\ now' = now + d
               /\ calls' = Append(calls, "call_openai_decision")
               /\ decision' = decision_from_provider(o)
               /\ absorbed' = IF ProviderFailed(o) \/ o.kind = "stub_raises"
                              THEN absorbed \cup {"decision"} ELSE absorbed
       ELSE /\ decision' = decision_unavailable
            /\ UNCHANGED <<now, calls, absorbed>>
    /\ pc' = "ms_replicate"
    /\ UNCHANGED <<analysisVars, loadVars, readerVars, healthVars, httpVars, config, adapters, runs, issued, call, workflow_id, start_time,
                   steps, bound, escaped, raised, result, mask_options,
                   replicate_result, agora_result>>

\* What _call_replicate_advanced_mask and _call_agora_generate_token may do:
\* the repository's return their dict (output_url, token); a test double may
\* raise or return a dict without that key.
MaskAdapterOutcomes ==
    IF adapters = "source" THEN {[raises |-> FALSE, has_output |-> TRUE]}
    ELSE {[raises |-> TRUE, has_output |-> FALSE],
          [raises |-> FALSE, has_output |-> TRUE],
          [raises |-> FALSE, has_output |-> FALSE]}

\* The dict of the except branch of a child agent.
failed_step(agent, err, ms, given) ==
    [given EXCEPT !.agent = agent, !.status = "failed", !.error = err,
                  !.processing_time_ms = ms]

\* processing_params of _replicate_agent_process_mask: the options as they are.
\* The three fields record what was handed to the adapter.
processing_params(opts) ==
    [NoStep EXCEPT !.ethnic_preference = opts.ethnic,
                   !.quality_level = opts.quality,
                   !.ar_integration = opts.AR]

\* Step 2: await self._replicate_agent_process_mask(...): the adapter call and
\* the ethics validation are awaited inside its own try.
replicate_agent_process_mask ==
    /\ pc = "ms_replicate"
    /\ IF ~config["replicate"]
       THEN /\ replicate_result' =
                   failed_step("replicate_mask_processor", "ValueError",
                               ElapsedMs(now, now), NoStep)
            /\ absorbed' = absorbed \cup {"replicate"}
            /\ UNCHANGED <<now, calls>>
       ELSE \E d \in Delays, o \in MaskAdapterOutcomes :
               /\ now + d <= MaxClock
               /\ now' = now + d
               /\ IF o.raises
                  THEN /\ calls' = Append(calls, "call_replicate_advanced_mask")
                       /\ replicate_result' =
                              failed_step("replicate_mask_processor", "AdapterError",
                                          ElapsedMs(now, now'),
                                          processing_params(mask_options))
                       /\ absorbed' = absorbed \cup {"replicate"}
                  ELSE /\ calls' = calls \o <<"call_replicate_advanced_mask",
                                             "validate_ethics_compliance">>
                       /\ replicate_result' =
                              [processing_params(mask_options) EXCEPT
                                  !.agent = "replicate_mask_processor",
                                  !.swapped_url =
                                      IF o.has_output THEN "url" ELSE "absent",
                                  !.processing_time_ms = ElapsedMs(now, now')]
                       /\ absorbed' = absorbed
    /\ pc' = "ms_agora"
    /\ UNCHANGED <<analysisVars, loadVars, readerVars, healthVars, httpVars, config, adapters, runs, issued, call, workflow_id, start_time,
                   steps, bound, escaped, raised, result, mask_options, decision,
                   agora_result>>

\* profiles.get(quality, profiles["standard"])
get_video_profile(quality) ==
    IF quality \in RecognisedQuality THEN quality ELSE "standard"

\* Step 3: await self._agora_agent_setup_stream(...), then the result dict of
\* orchestrate_mask_stream is put together and returned.
agora_agent_setup_stream ==
    /\ pc = "ms_agora"
    /\ IF ~config["agora"]
       THEN /\ agora_result' =
                   failed_step("agora_stream_manager", "ValueError",
                               ElapsedMs(now, now), NoStep)
            /\ absorbed' = absorbed \cup {"agora"}
            /\ UNCHANGED <<now, calls>>
       ELSE \E d \in Delays, o \in MaskAdapterOutcomes :
               /\ now + d <= MaxClock
               /\ now' = now + d
               /\ calls' = Append(calls, "call_agora_generate_token")
               /\ IF o.raises
                  THEN /\ agora_result' =
                              failed_step("agora_stream_manager", "AdapterError",
                                          ElapsedMs(now, now'), NoStep)
                       /\ absorbed' = absorbed \cup {"agora"}
                  ELSE /\ agora_result' =
                              [NoStep EXCEPT
                                  !.agent = "agora_stream_manager",
                                  !.stream_token =
                                      IF o.has_output THEN "token" ELSE "absent",
                                  !.quality_level = mask_options.quality,
                                  !.ar_integration = mask_options.AR,
                                  !.video_profile =
                                      get_video_profile(mask_options.quality),
                                  !.processing_time_ms = ElapsedMs(now, now')]
                       /\ absorbed' = absorbed
    /\ result' = mask_success_result(workflow_id, replicate_result, agora_result',
                     mask_total_time(start_time, now', replicate_result,
                                     agora_result'))
    /\ pc' = "done"
    /\ UNCHANGED <<analysisVars, loadVars, readerVars, healthVars, httpVars, config, adapters, runs, issued, call, workflow_id, start_time,
                   steps, bound, escaped, raised, mask_options, decision,
                   replicate_result>>

(* ----------------------------------------------- _analyze_image_complexity *)

\* if image_size < 10000 ... elif image_size < 50000
LowBelow == 10000
MediumBelow == 50000

SizeStep == 500

ImageSizes ==
    {k * SizeStep : k \in 0..MaxSizeSteps}
    \cup {LowBelow - 1, LowBelow + 1, MediumBelow - 1, MediumBelow + 1}

\* What the caller passes as input_image: None, a string of some length, or
\* a value that is true and has no len().
NoImage == [kind |-> "none", length |-> 0]

ImageInputs ==
    {NoImage, [NoImage EXCEPT !.kind = "unsized"]}
    \cup {[NoImage EXCEPT !.kind = "str", !.length = n] : n \in ImageSizes}

NoAnalysis ==
    [complexity |-> "none", estimated_faces |-> 0, data_size |-> 0,
     processing_recommendation |-> "none"]

\* Mutant: the thresholds belong to the lower class.
complexity_thresholds_inclusive(image_size) ==
    IF image_size <= LowBelow THEN "low"
    ELSE IF image_size <= MediumBelow THEN "medium"
    ELSE "high"

\* The if / elif / else on image_size.
complexity(image_size) ==
    IF image_size < LowBelow THEN "low"
    ELSE IF image_size < MediumBelow THEN "medium"
    ELSE "high"

estimated_faces(c) ==
    CASE c = "low" -> 1
      [] c = "medium" -> 2
      [] c = "high" -> 3

\* _analyze_image_complexity: len(input_image) if input_image else 0; what
\* len() raises on is caught and answered with the "unknown" analysis.
analyze_image_complexity(image) ==
    IF image.kind = "unsized"
    THEN [NoAnalysis EXCEPT !.complexity = "unknown", !.estimated_faces = 1,
                            !.processing_recommendation = "safe"]
    ELSE LET image_size == IF image.kind = "str" THEN image.length ELSE 0
             c == complexity(image_size)
         IN [NoAnalysis EXCEPT
                !.complexity = c,
                !.estimated_faces = estimated_faces(c),
                !.data_size = image_size,
                !.processing_recommendation =
                    IF c = "low" THEN "standard" ELSE "enhanced"]

AnalysisIdle ==
    /\ input_image = NoImage
    /\ image_analysis = NoAnalysis

\* A call of _analyze_image_complexity and its return.
analyze_image ==
    /\ image_analysis = NoAnalysis
    /\ image_analysis' = analyze_image_complexity(input_image)
    /\ UNCHANGED <<input_image, config, adapters, now, runs, issued, perRun,
                   healthVars, httpVars, loadVars, readerVars>>

(* ----------------------------------------------------- load_configuration *)

\* The environment variables load_configuration derives a value from: the
\* primary credential of each platform, agora's certificate, and the one
\* variable it converts.  The others are copied as os.getenv returns them.
PrimaryCredential ==
    [n8n |-> "N8N_HOST", stripe |-> "STRIPE_SECRET_KEY", vercel |-> "VERCEL_TOKEN",
     openai |-> "OPENAI_API_KEY", grok |-> "GROK_API_KEY",
     replicate |-> "REPLICATE_API_TOKEN", agora |-> "AGORA_APP_ID"]

EnvNames ==
    {PrimaryCredential[p] : p \in Platforms}
    \cup {"AGORA_APP_CERTIFICATE", "AGORA_TOKEN_EXPIRATION_TIME"}

\* What a variable holds: it is not set, it is the empty string, it is a
\* decimal integer literal, or it is some other non-empty text.
EnvValues == {"unset", "empty", "digits", "text"}

\* os.getenv(name, default): the default only replaces a variable not set.
getenv(e, name, default) == IF e[name] = "unset" THEN default ELSE e[name]

\* bool(value) of None or a string.
truthy(value) == value \notin {"unset", "empty"}

\* int(value) raises ValueError unless the string is an integer literal.
int_raises(value) == value # "digits"

\* The environment of an orchestrator whose load_configuration returned the
\* enabled flags c.
EnvironFor(c, certificate) ==
    [n \in EnvNames |->
        IF \E p \in Platforms : PrimaryCredential[p] = n /\ c[p] THEN "text"
        ELSE IF n = "AGORA_APP_CERTIFICATE" /\ certificate THEN "text"
        ELSE "unset"]

Loaded ==
    /\ load_pc = "loaded"
    /\ environ = EnvironFor(config, app_certificate)

\* load_configuration, called by __init__: the dict is built entry by entry
\* and assigned to self.config when every value has been computed.
load_configuration ==
    /\ load_pc = "constructing"
    /\ IF int_raises(getenv(environ, "AGORA_TOKEN_EXPIRATION_TIME", "digits"))
       THEN /\ load_pc' = "raised"
            /\ UNCHANGED <<config, app_certificate>>
       ELSE /\ load_pc' = "loaded"
            /\ config' = [p \in Platforms |->
                              truthy(getenv(environ, PrimaryCredential[p], "unset"))]
            /\ app_certificate' =
                   truthy(getenv(environ, "AGORA_APP_CERTIFICATE", "unset"))
    /\ UNCHANGED <<environ, adapters, now, runs, issued, perRun, health_status,
                   hc, tasks, responses, health_results, requested, written,
                   httpVars,
                   readerVars, analysisVars>>

(* ------------------------------------------------------- health_check_all *)

\* Platforms whose probes one gather of the explored behaviours runs together.
MaxProbes == 2

\* The probes that send a network request; agora's reads the configuration.
NetworkProbes == Platforms \ {"agora"}

\* The HTTP status codes a probed provider answers with.
StatusCodes == {200, 201, 402, 500}

NoResponse == [kind |-> "none", status |-> 0, body |-> "none", followup |-> "none"]

\* What the network does to the request of a probe: the transport fails, the
\* timeout expires, or a response arrives, its body JSON or not.  followup is
\* the second request of the n8n probe (/api/v1/workflows after /healthz).
ProbeOutcomes(p) ==
    {[NoResponse EXCEPT !.kind = k] : k \in {"transport_error", "timeout"}}
    \cup {[NoResponse EXCEPT !.kind = "response", !.status = c, !.body = "json"] :
             c \in StatusCodes \ {200}}
    \cup (IF p = "n8n"
          THEN {[NoResponse EXCEPT !.kind = "response", !.status = 200,
                                   !.body = "json", !.followup = f] :
                   f \in {"json", "not_json", "http_error", "transport_error"}}
          ELSE {[NoResponse EXCEPT !.kind = "response", !.status = 200,
                                   !.body = b] : b \in {"json", "not_json"}})

\* No entry of the health table (the key is absent).
NoHealth == [status |-> "absent", text |-> "none", code |-> 0]

\* PlatformHealth(status=..., error_message=...): error_message is None, the
\* text of an exception, f"HTTP {response.status}", or a fixed sentence.
PlatformHealth(status, text, code) ==
    [NoHealth EXCEPT !.status = status, !.text = text, !.code = code]

Raised(o) == o.kind \in {"transport_error", "timeout"}

\* _health_check_vercel, _health_check_openai, _health_check_grok: status 200
\* and a body response.json() accepts give CONNECTED, another status ERROR,
\* and whatever raises inside the try gives DISCONNECTED.
health_check_http(o) ==
    IF Raised(o) THEN PlatformHealth("disconnected", "str(e)", 0)
    ELSE IF o.status = 200
    THEN (IF o.body = "json" THEN PlatformHealth("connected", "none", 0)
          ELSE PlatformHealth("disconnected", "str(e)", 0))
    ELSE PlatformHealth("error", "HTTP", o.status)

\* _health_check_n8n: /healthz answering 200 is followed by a second request,
\* whose status is only used for the workflow count.
health_check_n8n(o) ==
    IF Raised(o) THEN PlatformHealth("disconnected", "str(e)", 0)
    ELSE IF o.status = 200
    THEN (IF o.followup \in {"not_json", "transport_error"}
          THEN PlatformHealth("disconnected", "str(e)", 0)
          ELSE PlatformHealth("connected", "none", 0))
    ELSE PlatformHealth("error", "HTTP", o.status)

\* _health_check_stripe: stripe.Account.retrieve() returns the account for a
\* 2xx answer and raises for anything else; every exception gives ERROR.
health_check_stripe(o) ==
    IF ~Raised(o) /\ o.status \in 200..299 /\ o.body = "json"
    THEN PlatformHealth("connected", "none", 0)
    ELSE PlatformHealth("error", "str(e)", 0)

\* Mutant: the replicate probe without its 402 branch.
health_check_replicate_no_402(o) == health_check_http(o)

\* _health_check_replicate: as the other HTTP probes, and 402 gives CONFIGURED.
health_check_replicate(o) ==
    IF ~Raised(o) /\ o.status = 402
    THEN PlatformHealth("configured", "API valid but needs credit (HTTP 402)", 402)
    ELSE health_check_http(o)

\* _health_check_agora: no request; app_id and app_certificate must be set.
health_check_agora ==
    IF config["agora"] /\ app_certificate
    THEN PlatformHealth("configured", "none", 0)
    ELSE PlatformHealth("not_configured", "Missing app_id or app_certificate", 0)

\* _health_check_platform: the probe of the platform.  Its own except branch
\* (ERROR) is never taken: each probe catches what it raises.
health_check_platform(p, o) ==
    CASE p = "n8n" -> health_check_n8n(o)
      [] p = "stripe" -> health_check_stripe(o)
      [] p \in {"vercel", "openai", "grok"} -> health_check_http(o)
      [] p = "replicate" -> health_check_replicate(o)
      [] p = "agora" -> health_check_agora

\* Mutant: a probe for every platform of the configuration.
probe_dispatched_always(p) == TRUE

\* if self.config[platform_name]['enabled']: health_tasks.append(...)
probe_dispatched(p) == config[p]

\* Mutant: the table is left as it was when a probe did not report CONNECTED
\* or CONFIGURED.
health_status_after_all_or_nothing(table, results) ==
    IF \E p \in Platforms :
           results[p].status \in {"disconnected", "error", "not_configured"}
    THEN table
    ELSE [p \in Platforms |->
             IF results[p] # NoHealth THEN results[p] ELSE table[p]]

\* for result in health_results: self.health_status[result.name] = result
health_status_after(table, results) ==
    [p \in Platforms |-> IF results[p] # NoHealth THEN results[p] ELSE table[p]]

HealthIdle ==
    /\ health_status = [p \in Platforms |-> NoHealth]
    /\ hc = "idle"
    /\ tasks = [p \in Platforms |-> "none"]
    /\ responses = [p \in Platforms |-> NoResponse]
    /\ health_results = [p \in Platforms |-> NoHealth]
    /\ requested = {}
    /\ written = {}

orchestratorVars == <<config, adapters, now, runs, issued, perRun>>

\* health_check_all up to its await: a probe coroutine for every enabled
\* platform, handed to asyncio.gather.
health_check_all ==
    /\ hc = "idle"
    /\ hc' = "gather"
    /\ tasks' = [p \in Platforms |->
                    IF probe_dispatched(p) THEN "created" ELSE "none"]
    /\ responses' = [p \in Platforms |-> NoResponse]
    /\ health_results' = [p \in Platforms |-> NoHealth]
    /\ written' = {}
    /\ UNCHANGED <<app_certificate, health_status, requested,
                   orchestratorVars, httpVars, loadVars, readerVars, analysisVars>>

\* A probe runs up to its first await: the request is sent.  The agora probe
\* awaits nothing and returns at once.
probe_start ==
    \E p \in Platforms :
        /\ hc = "gather"
        /\ tasks[p] = "created"
        /\ IF p \in NetworkProbes
           THEN /\ tasks' = [tasks EXCEPT ![p] = "awaiting"]
                /\ requested' = requested \cup {p}
                /\ UNCHANGED health_results
           ELSE /\ tasks' = [tasks EXCEPT ![p] = "finished"]
                /\ health_results' =
                       [health_results EXCEPT ![p] = health_check_platform(p, NoResponse)]
                /\ UNCHANGED requested
        /\ UNCHANGED <<app_certificate, health_status, hc, responses, written,
                       orchestratorVars, httpVars, loadVars, readerVars, analysisVars>>

\* The request of a probe comes to its end and the probe returns.
probe_finish ==
    \E p \in Platforms :
        /\ hc = "gather"
        /\ tasks[p] = "awaiting"
        /\ \E o \in ProbeOutcomes(p) :
              /\ responses' = [responses EXCEPT ![p] = o]
              /\ health_results' =
                     [health_results EXCEPT ![p] = health_check_platform(p, o)]
        /\ tasks' = [tasks EXCEPT ![p] = "finished"]
        /\ UNCHANGED <<app_certificate, health_status, hc, requested, written,
                       orchestratorVars, httpVars, loadVars, readerVars, analysisVars>>

\* Mutant: the event loop may run another task after every assignment of the
\* result loop.
assigned_before_switch_one(pending) ==
    IF pending = {} THEN {} ELSE {CHOOSE p \in pending : TRUE}

\* The entries the result loop assigns before the event loop may run another
\* task: all of them, the loop holds no await.
assigned_before_switch(pending) == pending

\* gather returns when every probe has: the results are written to the table
\* without an await in between, and the table is returned.
health_check_return ==
    /\ \/ hc = "gather" /\ \A p \in Platforms : tasks[p] \in {"none", "finished"}
       \/ hc = "writing"
    /\ LET pending == {p \in Platforms : health_results[p] # NoHealth} \ written
           assigned == assigned_before_switch(pending)
       IN /\ health_status' =
                 health_status_after(health_status,
                     [p \in Platforms |->
                         IF p \in assigned THEN health_results[p] ELSE NoHealth])
          /\ written' = written \cup assigned
          /\ hc' = IF assigned = pending THEN "returned" ELSE "writing"
    /\ UNCHANGED <<app_certificate, tasks, responses, health_results,
                   requested, orchestratorVars, httpVars, loadVars, readerVars, analysisVars>>

\* The caller takes the table; another cycle may start.
health_check_next ==
    /\ hc = "returned"
    /\ hc' = "idle"
    /\ tasks' = [p \in Platforms |-> "none"]
    /\ responses' = [p \in Platforms |-> NoResponse]
    /\ health_results' = [p \in Platforms |-> NoHealth]
    /\ UNCHANGED <<app_certificate, health_status, requested, written,
                   orchestratorVars, httpVars, loadVars, readerVars, analysisVars>>

\* Mutant: every platform the table has an entry for is listed as connected.
connected_platforms_any_status(table) ==
    {p \in Platforms : table[p] # NoHealth}

\* [name for name, health in self.health_status.items()
\*  if health.status in [CONNECTED, CONFIGURED]]
connected_platforms(table) ==
    {p \in Platforms : table[p].status \in {"connected", "configured"}}

\* [name for name, config in self.config.items() if config['enabled']]
enabled_platforms == {p \in Platforms : config[p]}

\* get_orchestration_status: a synchronous method, run by its caller between
\* two awaits of whatever else the event loop is running.  seen, written and
\* pending record the table it read and how far the result loop of the
\* running cycle had come.
get_orchestration_status ==
    /\ status_report' =
           [NoReport EXCEPT
               !.total = Cardinality(DOMAIN config),
               !.enabled = Cardinality(enabled_platforms),
               !.connected = Cardinality(connected_platforms(health_status)),
               !.enabled_platforms = enabled_platforms,
               !.connected_platforms = connected_platforms(health_status),
               !.seen = [p \in Platforms |-> health_status[p].status],
               !.written = written,
               !.pending = {p \in Platforms : health_results[p] # NoHealth}
                               \ written]
    /\ UNCHANGED <<healthVars, orchestratorVars, httpVars, loadVars, analysisVars>>

(* ------------------------------------------- HTTP routes (app_enhanced.py) *)

\* max_attempts of the polling loop of face_swap
max_attempts == 30

NoRequest ==
    [route |-> "none", body |-> "none", fields |-> {}, operation |-> "missing",
     signature |-> "missing", event_type |-> "none"]

\* No response yet.  A response is its status code, the keys of its JSON
\* object and the values of the keys the routes' contracts speak of; a key
\* the object lacks has the value "absent".
NoAnswer ==
    [code |-> 0, keys |-> {}, status |-> "absent", event_type |-> "absent",
     n8n_triggered |-> "absent", workflow_triggered |-> "absent"]

\* jsonify({...}), code: a JSON object with a status key.
Json(code, status, keys) ==
    [NoAnswer EXCEPT !.code = code, !.status = status,
                     !.keys = keys \cup {"status"}]

\* jsonify({"error": ...}), code: a JSON object holding the error key alone.
ErrorOnly(code) == [NoAnswer EXCEPT !.code = code, !.keys = {"error"}]

\* What a route did for a request: its response, the external calls it made,
\* whether an exception left the view function, and whether it is still at work.
NotHandled ==
    [answer |-> NoAnswer, external |-> <<>>, propagated |-> FALSE,
     pending |-> FALSE]

Handled(ans, ext) == [NotHandled EXCEPT !.answer = ans, !.external = ext]

\* The bodies of a POST request: none (or no JSON content type), text that is
\* no JSON, JSON that is no object, a JSON object.
Bodies == {"none", "not_json", "not_object", "object"}

\* What the providers do to the calls of one request.  flask_none: a request
\* without JSON content type makes request.get_json() return None (Flask
\* before 2.1) or raise (later).
ProviderAnswers ==
    [stripe : {"ok", "StripeError", "Exception"},
     n8n : {"ok", "not_dict", "rejected", "unreachable"},
     replicate : {"ok", "rejected", "unreachable"},
     flask_none : BOOLEAN]

\* An entry of the log of external calls: who was called, for what, what the
\* provider did, and what the caller got.
NoExternal ==
    [provider |-> "none", name |-> "none", outcome |-> "none", result |-> "none"]

\* N8NService.trigger_workflow / get_workflows: the call made and what the
\* method returns, the provider's JSON (an object, or another JSON value) or
\* {"error": str(e)} when raise_for_status or the request raised.
N8NCall(name, o) ==
    [NoExternal EXCEPT
        !.provider = "n8n", !.name = name, !.outcome = o.n8n,
        !.result = CASE o.n8n = "ok" -> "dict"
                     [] o.n8n = "not_dict" -> "list"
                     [] OTHER -> "error"]

\* A call of the stripe library: it returns an object or raises.
StripeCall(name, o) ==
    [NoExternal EXCEPT
        !.provider = "stripe", !.name = name, !.outcome = o.stripe,
        !.result = IF o.stripe = "ok" THEN "object" ELSE "raised"]

\* requests.post / requests.get to the Replicate API made by face_swap itself.
ReplicateCall(name, o) ==
    [NoExternal EXCEPT
        !.provider = "replicate", !.name = name, !.outcome = o.replicate,
        !.result = IF o.replicate = "unreachable" THEN "raised" ELSE "response"]

\* data = request.get_json(); data.get(...): raises unless the body is an object.
get_json_raises(req) == req.body # "object"

\* data = request.get_json() or {}: an object, unless get_json raises or the
\* body is a JSON value that is neither an object nor falsy.
get_json_or_empty_raises(req, o) ==
    \/ req.body = "not_json"
    \/ req.body = "not_object"
    \/ req.body = "none" /\ ~o.flask_none

\* The shape shared by the routes with required fields: the body is read, the
\* required fields are tested, and only then the route does its work.
Guarded(req, required, failure, missing, work) ==
    IF get_json_raises(req) THEN Handled(failure, <<>>)
    ELSE IF ~(required \subseteq req.fields) THEN Handled(missing, <<>>)
    ELSE work

\* GET /health: no try around n8n_service.get_workflows().get("error").
health_check(req, o) ==
    IF o.n8n = "not_dict"
    THEN [Handled(NoAnswer, <<N8NCall("get_workflows", o)>>)
             EXCEPT !.propagated = TRUE]
    ELSE
    Handled(Json(200, "healthy", {"service", "version", "integrations", "timestamp"}),
            <<N8NCall("get_workflows", o)>>)

\* The operation field of a body: a name, another string, absent, or a JSON
\* array or object (a list or dict, which a dict lookup cannot hash).
Operations ==
    {"swap", "mask", "stream", "payment", "general", "list", "other", "missing",
     "unhashable"}

\* workflow_mapping.get(operation_type, "general-ai-workflow") of orchestrate
workflow_mapping(operation) ==
    CASE operation = "swap" -> "face-swap-workflow"
      [] operation = "mask" -> "ar-mask-workflow"
      [] operation = "stream" -> "live-stream-workflow"
      [] operation = "payment" -> "payment-processing-workflow"
      [] OTHER -> "general-ai-workflow"

\* POST /api/orchestrate: get_json(silent=True) or {}; data.get raises on a
\* body that is not an object and workflow_mapping.get on an operation it
\* cannot hash, and the except branch answers 500.
orchestrate(req, o) ==
    IF req.body = "not_object" \/ (req.body = "object" /\ req.operation = "unhashable")
    THEN Handled(Json(500, "error", {"message", "timestamp"}), <<>>)
    ELSE LET name == workflow_mapping(IF req.body = "object" THEN req.operation
                                      ELSE "missing")
         IN Handled([Json(200, "success",
                          {"operation", "message", "n8n_response",
                           "workflow_triggered", "timestamp"})
                        EXCEPT !.workflow_triggered = name],
                    <<N8NCall(name, o)>>)

\* A route whose work is one call of the stripe library, followed in some
\* routes by an n8n trigger: StripeError gives 400, another exception 500.
stripe_work(call_name, workflow, code, keys, o) ==
    IF o.stripe = "StripeError" THEN Handled(ErrorOnly(400), <<StripeCall(call_name, o)>>)
    ELSE IF o.stripe = "Exception"
    THEN Handled(ErrorOnly(500), <<StripeCall(call_name, o)>>)
    ELSE Handled(Json(code, "success", keys),
                 IF workflow = "none" THEN <<StripeCall(call_name, o)>>
                 ELSE <<StripeCall(call_name, o), N8NCall(workflow, o)>>)

\* POST /api/customers
create_customer(req, o) ==
    Guarded(req, {"email"}, ErrorOnly(500), ErrorOnly(400),
            stripe_work("Customer.create", "new-customer-workflow", 201,
                        {"customer"}, o))

\* POST /api/products
create_product(req, o) ==
    Guarded(req, {"name"}, ErrorOnly(500), ErrorOnly(400),
            stripe_work("Product.create", "none", 201, {"product"}, o))

\* POST /api/create-checkout-session: priceId has a default, so only a priceId
\* given and empty is refused ("empty_priceId" among the fields).
create_checkout_session(req, o) ==
    IF get_json_raises(req) THEN Handled(ErrorOnly(500), <<>>)
    ELSE IF "empty_priceId" \in req.fields THEN Handled(ErrorOnly(400), <<>>)
    ELSE stripe_work("checkout.Session.create", "checkout-session-created", 200,
                     {"clientSecret", "sessionId", "url"}, o)

\* GET /api/subscriptions/<customer_id>
get_customer_subscriptions(req, o) ==
    stripe_work("Subscription.list", "none", 200, {"subscriptions"}, o)

EventTypes ==
    {"payment_intent.succeeded", "payment_intent.payment_failed",
     "checkout.session.completed", "customer.subscription.created",
     "customer.subscription.updated", "customer.subscription.deleted",
     "invoice.payment_succeeded", "invoice.payment_failed", "charge.refunded"}

\* Mutant: an event type without a branch of its own triggers nothing, and the
\* deletion of a subscription is handled as an update.
webhook_workflow_unhandled_dropped(event_type) ==
    CASE event_type = "payment_intent.succeeded" -> "payment-succeeded"
      [] event_type = "payment_intent.payment_failed" -> "payment-failed"
      [] event_type = "checkout.session.completed" -> "checkout-completed"
      [] event_type = "customer.subscription.created" -> "subscription-created"
      [] event_type = "customer.subscription.updated" -> "subscription-updated"
      [] event_type = "customer.subscription.deleted" -> "subscription-updated"
      [] event_type = "invoice.payment_succeeded" -> "invoice-paid"
      [] event_type = "invoice.payment_failed" -> "invoice-failed"
      [] OTHER -> "none"

\* The if / elif chain of stripe_webhook: the workflow triggered for an event.
webhook_workflow(event_type) ==
    CASE event_type = "payment_intent.succeeded" -> "payment-succeeded"
      [] event_type = "payment_intent.payment_failed" -> "payment-failed"
      [] event_type = "checkout.session.completed" -> "checkout-completed"
      [] event_type = "customer.subscription.created" -> "subscription-created"
      [] event_type = "customer.subscription.updated" -> "subscription-updated"
      [] event_type = "customer.subscription.deleted" -> "subscription-deleted"
      [] event_type = "invoice.payment_succeeded" -> "invoice-paid"
      [] event_type = "invoice.payment_failed" -> "invoice-failed"
      [] OTHER -> "stripe-webhook-generic"

\* The first lines of the try of stripe_webhook: with a secret,
\* stripe.Webhook.construct_event verifies the signature and then parses the
\* payload; without one, stripe.Event.construct_from(request.get_json(), ...).
\* The exception raised there or at event.type, or "none".
webhook_event_error(req, secret) ==
    IF secret
    THEN (IF req.signature # "valid" THEN "SignatureVerificationError"
          ELSE IF req.body \in {"none", "not_json"} THEN "ValueError"
          ELSE IF req.body = "not_object" \/ "type" \notin req.fields
          THEN "Exception"
          ELSE "none")
    ELSE (IF req.body # "object" \/ "type" \notin req.fields THEN "Exception"
          ELSE "none")

\* POST /api/stripe-webhook
stripe_webhook(req, o, secret) ==
    LET err == webhook_event_error(req, secret)
        name == webhook_workflow(req.event_type)
    IN IF err \in {"ValueError", "SignatureVerificationError"}
       THEN Handled(ErrorOnly(400), <<>>)
       ELSE IF err = "Exception" THEN Handled(ErrorOnly(500), <<>>)
       ELSE Handled([Json(200, "success",
                          {"event_type", "n8n_triggered", "timestamp"})
                        EXCEPT !.event_type = req.event_type,
                               !.n8n_triggered =
                                   IF name = "none" THEN "false" ELSE "true"],
                    IF name = "none" THEN <<>> ELSE <<N8NCall(name, o)>>)

\* GET /api/n8n/workflows
get_n8n_workflows(req, o) ==
    Handled(Json(200, "success", {"workflows"}), <<N8NCall("get_workflows", o)>>)

\* POST /api/n8n/trigger/<workflow_name>
trigger_n8n_workflow(req, o) ==
    IF get_json_or_empty_raises(req, o) THEN Handled(ErrorOnly(500), <<>>)
    ELSE Handled(Json(200, "success", {"workflow", "result", "timestamp"}),
                 <<N8NCall("workflow_name", o)>>)

\* The mock answer of face_swap: 200, status success, a fixed swapped_url.
mock_swap == Json(200, "success", {"swapped_url", "message", "timestamp"})

\* POST /api/face-swap up to its polling loop.  With a token the prediction
\* is requested: 201 starts the polling, any other answer is logged and the
\* mock answer is returned; requests.post raising gives 500.
face_swap(req, o, token) ==
    Guarded(req, {"source", "target"}, ErrorOnly(500), ErrorOnly(400),
        IF ~token THEN Handled(mock_swap, <<>>)
        ELSE IF o.replicate = "unreachable"
        THEN Handled(ErrorOnly(500), <<ReplicateCall("predictions", o)>>)
        ELSE IF o.replicate = "rejected"
        THEN Handled(mock_swap, <<ReplicateCall("predictions", o)>>)
        ELSE [Handled(NoAnswer, <<ReplicateCall("predictions", o)>>)
                 EXCEPT !.pending = TRUE])

\* What one poll of the prediction comes to: the request raises, the answer is
\* not 200, or it is 200 with the prediction's status.
PollOutcomes == {"unreachable", "not_200", "processing", "succeeded", "failed"}

\* Mutant: a prediction reported as failed is polled again.
face_swap_poll_answer_failed_polled_on(p) ==
    CASE p = "succeeded" ->
             Json(200, "success",
                  {"swapped_url", "prediction_id", "processing_time", "timestamp"})
      [] p = "unreachable" -> ErrorOnly(500)
      [] OTHER -> NoAnswer

\* The response one poll ends the loop with, NoAnswer when it goes on.
face_swap_poll_answer(p) ==
    CASE p = "succeeded" ->
             Json(200, "success",
                  {"swapped_url", "prediction_id", "processing_time", "timestamp"})
      [] p = "failed" -> Json(500, "error", {"message", "error"})
      [] p = "unreachable" -> ErrorOnly(500)
      [] OTHER -> NoAnswer

\* The response after max_attempts polls: 202, still processing.
still_processing == Json(202, "processing", {"prediction_id", "message"})

\* POST /api/ar-mask
ar_mask(req, o) ==
    Guarded(req, {"image", "mask_type"}, ErrorOnly(500), ErrorOnly(400),
        Handled(Json(200, "success", {"message", "workflow_result", "timestamp"}),
                <<N8NCall("ar-mask-processing", o)>>))

\* POST /api/user-test
user_test(req, o) ==
    Guarded(req, {"user_id", "feedback"}, Json(500, "error", {"error", "timestamp"}),
        ErrorOnly(400),
        Handled(Json(200, "logged", {"message", "user_id", "feedback_id", "metrics",
                                     "next_steps", "timestamp"}), <<>>))

\* POST /api/deploy
deploy(req, o) ==
    IF get_json_or_empty_raises(req, o)
    THEN Handled(Json(500, "failed", {"error", "timestamp"}), <<>>)
    ELSE Handled(Json(200, "deployed", {"url", "environment", "platform",
                                        "deployment_id", "steps", "timestamp"}),
                 <<>>)

\* POST /api/face-ethics: metadata holding an NSFW keyword gives status unsafe.
face_ethics(req, o) ==
    Guarded(req, {"image_base64"}, ErrorOnly(500), ErrorOnly(400),
        Handled(Json(200, IF "nsfw_metadata" \in req.fields THEN "unsafe" ELSE "safe",
                     {"confidence", "message", "faces_detected", "ethics_checks",
                      "timestamp"}), <<>>))

\* POST /api/live-stream: a token derived from the credentials, or a mock one.
live_stream(req, o) ==
    Guarded(req, {"channel_name"}, ErrorOnly(500), ErrorOnly(400),
        Handled(Json(200, "success", {"stream_token", "channel_name", "timestamp"}),
                <<>>))

\* GET and POST /api/ai-agents
ai_agents(req, o) ==
    IF req.body = "get"
    THEN Handled(Json(200, "success", {"agents", "total", "timestamp"}), <<>>)
    ELSE IF get_json_raises(req)
    THEN Handled(Json(500, "error", {"message", "timestamp"}), <<>>)
    ELSE IF req.operation \in {"swap", "mask", "stream", "list"}
    THEN Handled(Json(200, "success", {"operation", "result", "timestamp"}), <<>>)
    ELSE Handled(Json(400, "error", {"message", "available_operations"}), <<>>)

\* GET /
home(req, o) ==
    Handled([NoAnswer EXCEPT !.code = 200,
                             !.keys = {"service", "version", "description",
                                       "endpoints", "integrations", "timestamp"}],
            <<>>)

\* The fields of a body a route looks at.
RouteFields(route) ==
    CASE route = "create_customer" -> {"email"}
      [] route = "create_product" -> {"name"}
      [] route = "create_checkout_session" -> {"empty_priceId"}
      [] route = "stripe_webhook" -> {"type"}
      [] route = "face_swap" -> {"source", "target"}
      [] route = "ar_mask" -> {"image", "mask_type"}
      [] route = "user_test" -> {"user_id", "feedback"}
      [] route = "face_ethics" -> {"image_base64", "nsfw_metadata"}
      [] route = "live_stream" -> {"channel_name"}
      [] OTHER -> {}

\* The requests explored for a route that reads a JSON body.
PostRequests(route) ==
    {[NoRequest EXCEPT !.route = route, !.body = b] : b \in Bodies \ {"object"}}
    \cup {[NoRequest EXCEPT !.route = route, !.body = "object", !.fields = f] :
             f \in SUBSET RouteFields(route)}

\* A request without a body.
GetRequest(route) == [NoRequest EXCEPT !.route = route, !.body = "get"]

\* The requests with an operation field (orchestrate, ai_agents).
OperationRequests(route) ==
    {[NoRequest EXCEPT !.route = route, !.body = b] : b \in Bodies \ {"object"}}
    \cup {[NoRequest EXCEPT !.route = route, !.body = "object", !.operation = op] :
             op \in Operations}

\* The webhook deliveries: a body, a Stripe-Signature header, an event type.
WebhookRequests ==
    {[r EXCEPT !.signature = s] :
        r \in PostRequests("stripe_webhook"), s \in {"missing", "invalid", "valid"}}
    \cup {[NoRequest EXCEPT !.route = "stripe_webhook", !.body = "object",
                            !.fields = {"type"}, !.signature = s,
                            !.event_type = t] :
             s \in {"missing", "valid"}, t \in EventTypes}

HttpIdle ==
    /\ http_pc = "idle"
    /\ request = NoRequest
    /\ answer = NoAnswer
    /\ external = <<>>
    /\ propagated = FALSE
    /\ attempt = 0
    /\ polled = "none"

notHttpVars ==
    <<orchestratorVars, healthVars, loadVars, readerVars, analysisVars>>

\* A request arrives and its view function runs, to its return or, in
\* face_swap, to the first poll.
Serve(req, h) ==
    /\ http_pc = "idle"
    /\ request' = req
    /\ answer' = h.answer
    /\ external' = h.external
    /\ propagated' = h.propagated
    /\ http_pc' = IF h.pending THEN "polling" ELSE "answered"
    /\ attempt' = 0
    /\ polled' = "none"
    /\ UNCHANGED <<env, notHttpVars>>

GET_health ==
    \E o \in ProviderAnswers :
        Serve(GetRequest("health_check"), health_check(GetRequest("health_check"), o))

POST_orchestrate ==
    \E req \in OperationRequests("orchestrate"), o \in ProviderAnswers :
        Serve(req, orchestrate(req, o))

POST_customers ==
    \E req \in PostRequests("create_customer"), o \in ProviderAnswers :
        Serve(req, create_customer(req, o))

POST_products ==
    \E req \in PostRequests("create_product"), o \in ProviderAnswers :
        Serve(req, create_product(req, o))

POST_create_checkout_session ==
    \E req \in PostRequests("create_checkout_session"), o \in ProviderAnswers :
        Serve(req, create_checkout_session(req, o))

GET_subscriptions ==
    \E o \in ProviderAnswers :
        Serve(GetRequest("get_customer_subscriptions"),
              get_customer_subscriptions(GetRequest("get_customer_subscriptions"), o))

POST_stripe_webhook ==
    \E req \in WebhookRequests, o \in ProviderAnswers :
        Serve(req, stripe_webhook(req, o, env.webhook_secret))

GET_n8n_workflows ==
    \E o \in ProviderAnswers :
        Serve(GetRequest("get_n8n_workflows"),
              get_n8n_workflows(GetRequest("get_n8n_workflows"), o))

POST_n8n_trigger ==
    \E req \in PostRequests("trigger_n8n_workflow"), o \in ProviderAnswers :
        Serve(req, trigger_n8n_workflow(req, o))

POST_face_swap ==
    \E req \in PostRequests("face_swap"), o \in ProviderAnswers :
        Serve(req, face_swap(req, o, env.replicate_token))

\* One round of the polling loop of face_swap: the loop is left after
\* max_attempts polls, or a poll is made and ends the loop or does not.
face_swap_poll ==
    /\ http_pc = "polling"
    /\ IF attempt = max_attempts
       THEN /\ answer' = still_processing
            /\ http_pc' = "answered"
            /\ attempt' = attempt
            /\ polled' = polled
       ELSE \E p \in PollOutcomes :
               /\ attempt' = attempt + 1
               /\ polled' = p
               /\ answer' = face_swap_poll_answer(p)
               /\ http_pc' = IF answer' = NoAnswer THEN "polling" ELSE "answered"
    /\ UNCHANGED <<env, request, external, propagated, notHttpVars>>

POST_ar_mask ==
    \E req \in PostRequests("ar_mask"), o \in ProviderAnswers :
        Serve(req, ar_mask(req, o))

POST_user_test ==
    \E req \in PostRequests("user_test"), o \in ProviderAnswers :
        Serve(req, user_test(req, o))

POST_deploy ==
    \E req \in PostRequests("deploy"), o \in ProviderAnswers :
        Serve(req, deploy(req, o))

POST_face_ethics ==
    \E req \in PostRequests("face_ethics"), o \in ProviderAnswers :
        Serve(req, face_ethics(req, o))

POST_live_stream ==
    \E req \in PostRequests("live_stream"), o \in ProviderAnswers :
        Serve(req, live_stream(req, o))

GET_ai_agents ==
    \E o \in ProviderAnswers :
        Serve(GetRequest("ai_agents"), ai_agents(GetRequest("ai_agents"), o))

POST_ai_agents ==
    \E req \in OperationRequests("ai_agents"), o \in ProviderAnswers :
        Serve(req, ai_agents(req, o))

GET_home ==
    \E o \in ProviderAnswers : Serve(GetRequest("home"), home(GetRequest("home"), o))

\* The response has been sent; the next request is served from scratch.
Respond ==
    /\ http_pc = "answered"
    /\ http_pc' = "idle"
    /\ request' = NoRequest
    /\ answer' = NoAnswer
    /\ external' = <<>>
    /\ propagated' = FALSE
    /\ attempt' = 0
    /\ polled' = "none"
    /\ UNCHANGED <<env, notHttpVars>>

(* ----------------------------------------------------------- the program *)

IdleRun ==
    /\ pc = "idle"
    /\ call = NoCall
    /\ workflow_id = NoId
    /\ start_time = 0
    /\ steps = <<>>
    /\ bound = {}
    /\ calls = <<>>
    /\ escaped = "none"
    /\ absorbed = {}
    /\ raised = FALSE
    /\ result = NoResult
    /\ mask_options = NoOptions
    /\ decision = NoDecision
    /\ replicate_result = NoStep
    /\ agora_result = NoStep

\* The configurations in which exactly the platforms of `varying` may be enabled.
Configurations(varying) ==
    {c \in [Platforms -> BOOLEAN] : \A p \in Platforms \ varying : ~c[p]}

\* PlatformOrchestrator(): load_configuration has set the enabled flags of
\* the platforms in `varying` from the environment; nothing has been called yet.
InitOver(varying) ==
    /\ config \in Configurations(varying)
    /\ adapters \in {"source", "stubbed"}
    /\ now = 0
    /\ runs = 0
    /\ issued = <<>>
    /\ IdleRun
    /\ HealthIdle
    /\ app_certificate = TRUE
    /\ HttpIdle
    /\ env = [webhook_secret |-> FALSE, replicate_token |-> FALSE]
    /\ Loaded
    /\ status_report = NoReport
    /\ AnalysisIdle

\* The platforms whose enabled flag a workflow of orchestrate_workflow reads,
\* and those orchestrate_mask_stream reads; no call reads grok's.
WorkflowPlatforms == Platforms \ {"grok"}
MaskPlatforms == {"openai", "replicate", "agora"}

InitWorkflow == InitOver(WorkflowPlatforms)
InitMask == InitOver(MaskPlatforms)

\* The caller takes the result; the next call starts with fresh locals.
Deliver ==
    /\ pc = "done"
    /\ pc' = "idle"
    /\ call' = NoCall
    /\ workflow_id' = NoId
    /\ start_time' = 0
    /\ steps' = <<>>
    /\ bound' = {}
    /\ calls' = <<>>
    /\ escaped' = "none"
    /\ absorbed' = {}
    /\ raised' = FALSE
    /\ result' = NoResult
    /\ mask_options' = NoOptions
    /\ decision' = NoDecision
    /\ replicate_result' = NoStep
    /\ agora_result' = NoStep
    /\ UNCHANGED <<analysisVars, loadVars, readerVars, healthVars, httpVars, config, adapters, now, runs, issued>>

\* Time passes between two calls.
Tick ==
    /\ pc = "idle"
    /\ now + AwaitMs <= MaxClock
    /\ now' = now + AwaitMs
    /\ UNCHANGED <<analysisVars, loadVars, readerVars, healthVars, httpVars, config, adapters, runs, issued, perRun>>

NextWorkflow ==
    \/ orchestrate_workflow
    \/ fsp_stripe \/ fsp_replicate \/ fsp_n8n \/ fsp_vercel \/ fsp_return
    \/ uo_stripe \/ uo_agora \/ uo_n8n \/ uo_return
    \/ ls_agora \/ ls_ai \/ ls_n8n \/ ls_return
    \/ ac_openai \/ ac_replicate \/ ac_vercel \/ ac_n8n \/ ac_return
    \/ Deliver
    \/ Tick

SpecWorkflow == InitWorkflow /\ [][NextWorkflow]_vars

NextMask ==
    \/ orchestrate_mask_stream
    \/ master_agent_decide
    \/ replicate_agent_process_mask
    \/ agora_agent_setup_stream
    \/ Deliver
    \/ Tick

SpecMask == InitMask /\ [][NextMask]_vars

\* Both entry points served by one orchestrator.
NextCalls == NextWorkflow \/ NextMask

SpecCalls == InitWorkflow /\ [][NextCalls]_vars

\* PlatformOrchestrator() with at most MaxProbes platforms enabled, and
\* health_check_all called again and again.
InitHealth ==
    /\ config \in {c \in [Platforms -> BOOLEAN] :
                      Cardinality({p \in Platforms : c[p]}) <= MaxProbes}
    /\ app_certificate \in (IF config["agora"] THEN BOOLEAN ELSE {TRUE})
    /\ adapters = "source"
    /\ now = 0
    /\ runs = 0
    /\ issued = <<>>
    /\ IdleRun
    /\ HealthIdle
    /\ HttpIdle
    /\ env = [webhook_secret |-> FALSE, replicate_token |-> FALSE]
    /\ Loaded
    /\ status_report = NoReport
    /\ AnalysisIdle

NextHealth ==
    \/ health_check_all
    \/ probe_start
    \/ probe_finish
    \/ health_check_return
    \/ health_check_next

SpecHealth == InitHealth /\ [][NextHealth]_vars

\* The platforms enabled in the behaviours with a reader of the table: a
\* probe that raises on a transport error, one with a CONFIGURED answer, and
\* the one that sends no request.
StatusPlatforms == {"stripe", "replicate", "agora"}

\* PlatformOrchestrator() with health_check_all cycles and, between any two
\* steps of them, calls of get_orchestration_status.
InitStatus ==
    /\ config \in Configurations(StatusPlatforms)
    /\ app_certificate \in (IF config["agora"] THEN BOOLEAN ELSE {TRUE})
    /\ adapters = "source"
    /\ now = 0
    /\ runs = 0
    /\ issued = <<>>
    /\ IdleRun
    /\ HealthIdle
    /\ HttpIdle
    /\ env = [webhook_secret |-> FALSE, replicate_token |-> FALSE]
    /\ Loaded
    /\ status_report = NoReport
    /\ AnalysisIdle

NextStatus ==
    \/ health_check_all
    \/ probe_start
    \/ probe_finish
    \/ health_check_return
    \/ health_check_next
    \/ get_orchestration_status

SpecStatus == InitStatus /\ [][NextStatus]_vars

\* The application of app_enhanced.py after import: STRIPE_WEBHOOK_SECRET and
\* REPLICATE_API_TOKEN are set in the environment or not; no orchestrator call
\* is made by its routes.
InitRoutes ==
    /\ env \in [webhook_secret : BOOLEAN, replicate_token : BOOLEAN]
    /\ config = [p \in Platforms |-> FALSE]
    /\ app_certificate = TRUE
    /\ adapters = "source"
    /\ now = 0
    /\ runs = 0
    /\ issued = <<>>
    /\ IdleRun
    /\ HealthIdle
    /\ HttpIdle
    /\ Loaded
    /\ status_report = NoReport
    /\ AnalysisIdle

NextRoutes ==
    \/ GET_health
    \/ POST_orchestrate
    \/ POST_customers
    \/ POST_products
    \/ POST_create_checkout_session
    \/ GET_subscriptions
    \/ POST_stripe_webhook
    \/ GET_n8n_workflows
    \/ POST_n8n_trigger
    \/ POST_face_swap
    \/ face_swap_poll
    \/ POST_ar_mask
    \/ POST_user_test
    \/ POST_deploy
    \/ POST_face_ethics
    \/ POST_live_stream
    \/ GET_ai_agents
    \/ POST_ai_agents
    \/ GET_home
    \/ Respond

SpecRoutes == InitRoutes /\ [][NextRoutes]_vars

\* The module is imported: PlatformOrchestrator() is about to run
\* load_configuration in the environment the process was started with.
InitLoad ==
    /\ environ \in {e \in [EnvNames -> EnvValues] :
                       \A n \in EnvNames \ {"AGORA_TOKEN_EXPIRATION_TIME"} :
                           e[n] # "digits"}
    /\ load_pc = "constructing"
    /\ config = [p \in Platforms |-> FALSE]
    /\ app_certificate = FALSE
    /\ adapters = "source"
    /\ now = 0
    /\ runs = 0
    /\ issued = <<>>
    /\ IdleRun
    /\ HealthIdle
    /\ HttpIdle
    /\ env = [webhook_secret |-> FALSE, replicate_token |-> FALSE]
    /\ status_report = NoReport
    /\ AnalysisIdle

NextLoad == load_configuration

SpecLoad == InitLoad /\ [][NextLoad]_vars

\* The decision step's classifier applied to one payload.
InitAnalysis ==
    /\ input_image \in ImageInputs
    /\ image_analysis = NoAnalysis
    /\ config = [p \in Platforms |-> FALSE]
    /\ app_certificate = FALSE
    /\ adapters = "source"
    /\ now = 0
    /\ runs = 0
    /\ issued = <<>>
    /\ IdleRun
    /\ HealthIdle
    /\ HttpIdle
    /\ env = [webhook_secret |-> FALSE, replicate_token |-> FALSE]
    /\ Loaded
    /\ status_report = NoReport

NextAnalysis == analyze_image

SpecAnalysis == InitAnalysis /\ [][NextAnalysis]_vars

(* ----------------------------------------------------------------- claims *)

IsWorkflowRun == call.fn = "orchestrate_workflow"
IsMaskRun == call.fn = "orchestrate_mask_stream"

\* Every entry of s is an entry of t at the same place.
IsPrefix(s, t) ==
    /\ Len(s) <= Len(t)
    /\ \A i \in 1..Len(s) : t[i] = s[i]

\* C1: orchestrate_workflow with a name that is none of the four workflows does
\* not raise; it returns status failed with an error, no step was executed and
\* no adapter was called.
C1_UnknownWorkflowFails ==
    (IsWorkflowRun /\ call.name \notin KnownWorkflows)
        => /\ pc = "done"
           /\ ~raised
           /\ result.status = "failed"
           /\ result.error # "none"
           /\ steps = <<>>
           /\ result.steps = <<>>
           /\ calls = <<>>

C1_Witness ==
    /\ pc = "done"
    /\ IsWorkflowRun
    /\ call.name = "unknown_name"
    /\ result.status = "failed"
    /\ result.error = "ValueError"

\* C2: in face_swap_payment with stripe enabled, once the validation step has
\* reported the payment as not valid the run is over: it returned status failed
\* with reason payment_invalid and a steps list holding the stripe_validation
\* entry alone, and the validation adapter is the only adapter called.
C2_InvalidPaymentStops ==
    (/\ IsWorkflowRun
     /\ call.name = "face_swap_payment"
     /\ config["stripe"]
     /\ Len(steps) >= 1
     /\ steps[1].step = "stripe_validation"
     /\ ~steps[1].valid)
        => /\ pc = "done"
           /\ ~raised
           /\ result.status = "failed"
           /\ result.reason = "payment_invalid"
           /\ result.has_steps
           /\ Len(result.steps) = 1
           /\ result.steps[1].step = "stripe_validation"
           /\ calls = <<"call_stripe_validate_payment">>

C2_Witness ==
    /\ pc = "done"
    /\ call.name = "face_swap_payment"
    /\ config["replicate"] /\ config["n8n"] /\ config["vercel"]
    /\ Len(steps) = 1
    /\ ~steps[1].valid
    /\ result.reason = "payment_invalid"

\* C3, as claimed: a failed result of orchestrate_workflow holds the entries of
\* every step that completed before the run ended.  Stated for the
\* repository's own adapters, so that no failure rests on a test double.
C3_PartialHistoryKept ==
    (/\ adapters = "source"
     /\ pc = "done"
     /\ IsWorkflowRun
     /\ result.status = "failed")
        => IsPrefix(steps, result.steps)

\* C4, as claimed: a call returns a result with a workflow id and never
\* raises, and whenever an exception occurred inside the run, caught by a step
\* or not, the result has status failed with an error message.  Stated for
\* the runs in which the processing and the streaming-setup step raised
\* nothing, so that a violation rests on the decision step's fallback alone.
C4_AnyExceptionFails ==
    (pc = "done" /\ absorbed \subseteq {"decision"})
        => /\ ~raised
           /\ result.workflow_id # NoId
           /\ (escaped # "none" \/ absorbed # {})
                 => (result.status = "failed" /\ result.error # "none")

\* C4, amended: a call returns a result with its workflow id and never raises,
\* and whenever an exception reached the outermost handler of the call (no
\* step caught it) the result has status failed with that error.
C4_NeverRaises ==
    (pc = "done")
        => /\ ~raised
           /\ result.workflow_id # NoId
           /\ result.workflow_id = workflow_id
           /\ escaped # "none"
                 => (result.status = "failed" /\ result.error = escaped)

\* An adapter raised in the middle of a workflow and the call still answered.
C4_Witness ==
    /\ pc = "done"
    /\ escaped = "AdapterError"
    /\ Len(steps) >= 1
    /\ result.status = "failed"
    /\ ~raised

\* C5, as claimed: the workflow ids given out by orchestrate_workflow are
\* pairwise distinct.
C5_DistinctWorkflowIds ==
    \A i, j \in 1..Len(issued) : i # j => issued[i] # issued[j]

\* C6, as claimed: a completed run of a sequential workflow reports a total
\* elapsed time, the sum of the times its step entries report.
C6_TotalIsSumOfSteps ==
    (pc = "done" /\ IsWorkflowRun /\ result.status = "completed")
        => /\ result.processing_time_ms # NoTime
           /\ result.processing_time_ms = SumMs(result.steps)

\* The times the two step entries of a mask stream run report, added up.
MaskStepSum == replicate_result.processing_time_ms + agora_result.processing_time_ms

\* C7, as claimed: a successful orchestrate_mask_stream run reports a total
\* equal to the sum of the times its steps report.  Stated for the runs whose
\* two steps both delivered (a processed url, a stream token).
C7_MaskTotalIsSum ==
    (/\ pc = "done"
     /\ IsMaskRun
     /\ result.status = "success"
     /\ result.swapped_url = "url"
     /\ result.stream_token = "token")
        => result.processing_time_ms = MaskStepSum

\* C7, amended: a successful orchestrate_mask_stream run reports as total the
\* wall-clock span from the start of the call to its end, which is never less
\* than the sum of the times its steps report.
C7_MaskTotalIsWallClock ==
    (pc = "done" /\ IsMaskRun /\ result.status = "success")
        => /\ result.processing_time_ms = now - start_time
           /\ result.processing_time_ms >= MaskStepSum

\* A successful run whose total exceeds the sum: the decision step took time.
C7_Witness ==
    /\ pc = "done"
    /\ IsMaskRun
    /\ result.status = "success"
    /\ result.swapped_url = "url"
    /\ result.stream_token = "token"
    /\ result.processing_time_ms > MaskStepSum
    /\ MaskStepSum > 0

\* C8: orchestrate_mask_stream with a body lacking input_image, or holding an
\* empty one, returns status failed with an error; no step ran and no adapter
\* was called.
C8_MissingImageFails ==
    (IsMaskRun /\ call.input_image \in {"missing", "empty"})
        => /\ pc = "done"
           /\ ~raised
           /\ result.status = "failed"
           /\ result.error # "none"
           /\ calls = <<>>
           /\ decision = NoDecision
           /\ replicate_result = NoStep
           /\ agora_result = NoStep

C8_Witness ==
    /\ pc = "done"
    /\ IsMaskRun
    /\ call.is_dict
    /\ call.input_image = "empty"
    /\ result.status = "failed"
    /\ result.error = "ValueError"

FallbackReasonings ==
    {"Fallback mode - GPT-4o not available", "Fallback due to error",
     "Error fallback"}

\* C9: when the chat-completion provider is not configured, or its call fails
\* (transport error, timeout, non-success status, or it raises), the decision
\* step still yields an AgentDecision with a confidence below the default and
\* a reasoning that records the fallback; the run is not failed by it and the
\* processing step runs next.
C9_DecisionFallback ==
    (/\ IsMaskRun
     /\ decision # NoDecision
     /\ (~config["openai"] \/ "decision" \in absorbed))
        => /\ decision.confidence < DefaultConfidence
           /\ decision.reasoning \in FallbackReasonings
           /\ escaped = "none"
           /\ ~raised
           /\ (pc = "ms_replicate" \/ replicate_result # NoStep)
           /\ (pc = "done" => result.status = "success")

\* The provider's call failed and the processing step has run.
C9_Witness ==
    /\ IsMaskRun
    /\ config["openai"]
    /\ "decision" \in absorbed
    /\ decision.reasoning = "Fallback due to error"
    /\ pc = "ms_agora"
    /\ replicate_result.agent = "replicate_mask_processor"

\* C10, as claimed: the mask options hold, for each field, the request's value
\* when it is a recognised one and the documented default otherwise, and the
\* processing step is handed recognised values only.
C10_UnrecognisedReplaced ==
    (IsMaskRun /\ mask_options # NoOptions)
        => /\ mask_options.ethnic =
                 (IF call.ethnic \in RecognisedEthnic THEN call.ethnic ELSE "diverse")
           /\ mask_options.quality =
                 (IF call.quality \in RecognisedQuality THEN call.quality ELSE "ultra")
           /\ mask_options.AR =
                 (IF call.AR \in RecognisedAR THEN call.AR ELSE "overlays")
           /\ replicate_result.ethnic_preference \in RecognisedEthnic \cup {"unset"}
           /\ replicate_result.quality_level \in RecognisedQuality \cup {"unset"}
           /\ replicate_result.ar_integration \in RecognisedAR \cup {"unset"}

\* The adapter a was called in the run.
Called(a) == \E i \in 1..Len(calls) : calls[i] = a

\* C11: the mask options hold the request's value for every field given a
\* recognised value and the default (diverse, ultra, overlays) for every field
\* the request lacks, and the processing adapter is handed exactly the values
\* of the options object.
C11_OptionsRoundTrip ==
    (IsMaskRun /\ mask_options # NoOptions)
        => /\ call.ethnic \in RecognisedEthnic => mask_options.ethnic = call.ethnic
           /\ call.quality \in RecognisedQuality
                 => mask_options.quality = call.quality
           /\ call.AR \in RecognisedAR => mask_options.AR = call.AR
           /\ call.ethnic = "missing" => mask_options.ethnic = "diverse"
           /\ call.quality = "missing" => mask_options.quality = "ultra"
           /\ call.AR = "missing" => mask_options.AR = "overlays"
           /\ Called("call_replicate_advanced_mask")
                 => /\ replicate_result.ethnic_preference = mask_options.ethnic
                    /\ replicate_result.quality_level = mask_options.quality
                    /\ replicate_result.ar_integration = mask_options.AR

\* asian / high / full reached the processing adapter as given.
C11_Witness ==
    /\ pc = "done"
    /\ IsMaskRun
    /\ call.ethnic = "asian" /\ call.quality = "high" /\ call.AR = "full"
    /\ Called("call_replicate_advanced_mask")
    /\ replicate_result.ethnic_preference = "asian"
    /\ replicate_result.quality_level = "high"
    /\ replicate_result.ar_integration = "full"

\* C12: health_check_all starts no probe and sends no request for a platform
\* whose enabled flag is false, and whatever cycles have run the health table
\* holds no entry for it (none, or NotConfigured).
C12_DisabledNeverProbed ==
    \A p \in Platforms :
        ~config[p]
            => /\ tasks[p] = "none"
               /\ p \notin requested
               /\ health_results[p] = NoHealth
               /\ health_status[p].status \in {"absent", "not_configured"}

\* A cycle has returned: an enabled platform is in the table, a disabled one
\* is not.
C12_Witness ==
    /\ hc = "returned"
    /\ \E p, q \in Platforms :
          /\ config[p] /\ ~config[q]
          /\ p \in requested
          /\ health_status[p].status = "connected"
          /\ health_status[q] = NoHealth

\* The probe of p came to a failure: no answer, or a 5xx answer.
ProbeFailed(p) ==
    Raised(responses[p]) \/ responses[p].status >= 500

C14_UniformClassification ==
    \A p \in NetworkProbes :
        (tasks[p] = "finished")
            => LET o == responses[p]
                   h == health_results[p]
               IN /\ Raised(o) => (h.status = "disconnected" /\ h.text = "str(e)")
                  /\ (o.kind = "response" /\ o.status = 500)
                        => (h.status = "error" /\ h.code = 500)
                  /\ (o.kind = "response" /\ o.status = 200 /\ o.body = "json"
                         /\ o.followup \in {"none", "json", "http_error"})
                        => h.status = "connected"

\* C15: the replicate probe makes Configured of a 402 answer, and Error, with
\* the status code, of every answer other than 200 and 402.
C15_PaymentRequiredConfigured ==
    (tasks["replicate"] = "finished" /\ responses["replicate"].kind = "response")
        => LET o == responses["replicate"]
               h == health_results["replicate"]
           IN /\ o.status = 402 => h.status = "configured"
              /\ o.status \notin {200, 402}
                    => (h.status = "error" /\ h.text = "HTTP" /\ h.code = o.status)
              /\ hc = "returned" => health_status["replicate"] = h

C15_Witness ==
    /\ hc = "returned"
    /\ responses["replicate"].status = 402
    /\ health_status["replicate"].status = "configured"

IsWebhook == request.route = "stripe_webhook" /\ http_pc = "answered"

\* The delivery was parsed into an event: a JSON object with a type, its
\* signature verified when a webhook secret is configured.
ParsedEvent ==
    /\ IsWebhook
    /\ request.body = "object"
    /\ "type" \in request.fields
    /\ env.webhook_secret => request.signature = "valid"

\* The workflow each known event type is to trigger, any other the generic one.
DedicatedWorkflow ==
    [t \in EventTypes |->
        CASE t = "payment_intent.succeeded" -> "payment-succeeded"
          [] t = "payment_intent.payment_failed" -> "payment-failed"
          [] t = "checkout.session.completed" -> "checkout-completed"
          [] t = "customer.subscription.created" -> "subscription-created"
          [] t = "customer.subscription.updated" -> "subscription-updated"
          [] t = "customer.subscription.deleted" -> "subscription-deleted"
          [] t = "invoice.payment_succeeded" -> "invoice-paid"
          [] t = "invoice.payment_failed" -> "invoice-failed"
          [] OTHER -> "stripe-webhook-generic"]

\* Exactly one call was made for the request, the trigger of the workflow.
TriggeredOnly(workflow) ==
    /\ Len(external) = 1
    /\ external[1].provider = "n8n"
    /\ external[1].name = workflow

C17_BadDeliveriesRefused ==
    (/\ IsWebhook
     /\ \/ request.body \in {"none", "not_json"}
        \/ env.webhook_secret /\ request.signature # "valid")
        => /\ answer.code = 400
           /\ external = <<>>

\* The required fields of the routes that have some.
RequiredFields ==
    [create_customer |-> {"email"}, create_product |-> {"name"},
     face_swap |-> {"source", "target"}, ar_mask |-> {"image", "mask_type"},
     face_ethics |-> {"image_base64"}, live_stream |-> {"channel_name"},
     user_test |-> {"user_id", "feedback"}]

\* C18, as claimed: on a route with required fields a request that lacks one
\* of them, or whose body is absent or no JSON object, is answered with 400
\* and no external call is made for it.
C18_InvalidRequestsRefused ==
    (/\ request.route \in DOMAIN RequiredFields
     /\ \/ request.body # "object"
        \/ ~(RequiredFields[request.route] \subseteq request.fields))
        => /\ http_pc = "answered"
           /\ answer.code = 400
           /\ external = <<>>

\* C19, as claimed: every response of every route is a JSON object with a
\* status field, and no exception leaves a view function.
C19_StatusEnvelope ==
    (http_pc = "answered") => (~propagated /\ "status" \in answer.keys)

\* C20, as claimed: a call a provider rejected is reported as an error by who
\* made it: the n8n adapter returns an error dict, and a route whose own call
\* to Stripe or Replicate was rejected does not answer with a success.
C20_RejectionNotSuccess ==
    (http_pc = "answered")
        => \A i \in 1..Len(external) :
              /\ (external[i].provider = "n8n" /\ external[i].outcome = "rejected")
                    => external[i].result = "error"
              /\ \/ external[i].provider = "stripe"
                       /\ external[i].outcome = "StripeError"
                 \/ external[i].provider = "replicate"
                       /\ external[i].outcome = "rejected"
                 => (answer.code >= 400 /\ answer.status # "success")

\* C21: load_configuration never raises, whatever the environment variables
\* hold, and enables a platform exactly when its primary credential variable
\* is non-empty.
C21_LoadNeverRaises ==
    load_pc # "constructing" =>
        /\ load_pc = "loaded"
        /\ \A p \in Platforms :
               config[p] <=> environ[PrimaryCredential[p]] \in {"digits", "text"}

IsOrchestrate == request.route = "orchestrate" /\ http_pc = "answered"

\* The operation the request names: the field of a JSON object, absent in
\* every other body.
RequestedOperation ==
    IF request.body = "object" THEN request.operation ELSE "missing"

\* The workflow the claim gives each operation.
ClaimedWorkflow ==
    [op \in Operations |->
        CASE op = "swap" -> "face-swap-workflow"
          [] op = "mask" -> "ar-mask-workflow"
          [] op = "stream" -> "live-stream-workflow"
          [] op = "payment" -> "payment-processing-workflow"
          [] OTHER -> "general-ai-workflow"]

\* C22: POST /api/orchestrate triggers exactly one n8n workflow per request,
\* the one of the operation field (general-ai-workflow for any other or
\* missing operation), and answers 200 with status success and
\* workflow_triggered naming it, whether or not the trigger succeeded.
C22_OneWorkflowPerRequest ==
    IsOrchestrate =>
        /\ TriggeredOnly(ClaimedWorkflow[RequestedOperation])
        /\ ~propagated
        /\ answer.code = 200
        /\ answer.status = "success"
        /\ answer.workflow_triggered = ClaimedWorkflow[RequestedOperation]

\* C23: the classifier is a total function of the payload length: below
\* 10000 it answers low and 1 face, from 10000 up to but not including 50000
\* medium and 2, from 50000 on high and 3.
C23_ComplexityThresholds ==
    (image_analysis # NoAnalysis /\ input_image.kind # "unsized") =>
        LET n == input_image.length
        IN /\ n < 10000 =>
                 image_analysis.complexity = "low"
                 /\ image_analysis.estimated_faces = 1
           /\ (n >= 10000 /\ n < 50000) =>
                 image_analysis.complexity = "medium"
                 /\ image_analysis.estimated_faces = 2
           /\ n >= 50000 =>
                 image_analysis.complexity = "high"
                 /\ image_analysis.estimated_faces = 3

\* A payload of exactly the higher threshold has been classified.
C23_Witness ==
    /\ input_image.kind = "str"
    /\ input_image.length = 50000
    /\ image_analysis.complexity = "high"
    /\ image_analysis.estimated_faces = 3

\* The steps of each workflow in the order of its code: the adapter a step
\* calls and the name of its entry in the steps list.
WorkflowOrder ==
    [face_swap_payment |->
        << <<"call_stripe_validate_payment", "stripe_validation">>,
           <<"call_replicate_face_swap", "face_swap">>,
           <<"call_n8n_trigger", "n8n_trigger">>,
           <<"call_vercel_deploy", "vercel_deploy">> >>,
     user_onboarding |->
        << <<"call_stripe_create_customer", "stripe_customer">>,
           <<"call_agora_setup_user", "agora_setup">>,
           <<"call_n8n_trigger", "n8n_onboarding">> >>,
     live_stream_setup |->
        << <<"call_agora_generate_token", "agora_token">>,
           <<"setup_ai_pipeline", "ai_pipeline">>,
           <<"call_n8n_trigger", "n8n_monitoring">> >>,
     ai_content_generation |->
        << <<"call_openai_generate", "openai_generation">>,
           <<"call_replicate_image_processing", "replicate_processing">>,
           <<"call_vercel_deploy_content", "vercel_deployment">>,
           <<"call_n8n_trigger", "n8n_distribution">> >>]

\* The calls of orchestrate_mask_stream in the order of its code.
MaskOrder ==
    <<"call_openai_decision", "call_replicate_advanced_mask",
      "validate_ethics_compliance", "call_agora_generate_token">>

\* The place of the adapter a in the order, 0 when it is not a step of it.
PlaceIn(order, a) ==
    IF \E k \in 1..Len(order) : order[k][1] = a
    THEN CHOOSE k \in 1..Len(order) : order[k][1] = a
    ELSE 0

\* The calls made so far are steps of the order, each made once, one after
\* another as the order has them.
CalledInOrder(order) ==
    /\ \A i \in 1..Len(calls) : PlaceIn(order, calls[i]) > 0
    /\ \A i, j \in 1..Len(calls) :
           i < j => PlaceIn(order, calls[i]) < PlaceIn(order, calls[j])

\* The steps list holds the entries of the calls that returned, in the order
\* in which they were made; only the last call may have raised.
StepsAsCalled(order) ==
    /\ Len(steps) \in {Len(calls), Len(calls) - 1}
    /\ \A i \in 1..Len(steps) :
           steps[i].step = order[PlaceIn(order, calls[i])][2]

\* C24: within one run the steps execute one after another in the workflow's
\* fixed order: each adapter is called at most once, after the adapters of
\* the steps before it have returned, and the steps list is in the order of
\* execution; in orchestrate_mask_stream the decision step has completed
\* before processing starts, and processing before streaming setup.
C24_StepsInSequence ==
    /\ (IsWorkflowRun /\ call.name \in KnownWorkflows) =>
           /\ CalledInOrder(WorkflowOrder[call.name])
           /\ StepsAsCalled(WorkflowOrder[call.name])
           /\ pc = "done" /\ result.status = "completed" => result.steps = steps
    /\ IsMaskRun =>
           /\ CalledInOrder([k \in 1..Len(MaskOrder) |-> <<MaskOrder[k], "none">>])
           /\ pc = "ms_decide" =>
                  decision = NoDecision /\ replicate_result = NoStep
                  /\ agora_result = NoStep
           /\ pc = "ms_replicate" =>
                  decision # NoDecision /\ replicate_result = NoStep
                  /\ agora_result = NoStep
           /\ pc = "ms_agora" =>
                  decision # NoDecision /\ replicate_result # NoStep
                  /\ agora_result = NoStep
           /\ agora_result # NoStep => replicate_result # NoStep
           /\ replicate_result # NoStep => decision # NoDecision

\* A face_swap_payment run has completed all four of its steps.
C24_Witness ==
    /\ IsWorkflowRun
    /\ call.name = "face_swap_payment"
    /\ pc = "done"
    /\ result.status = "completed"
    /\ calls = <<"call_stripe_validate_payment", "call_replicate_face_swap",
                 "call_n8n_trigger", "call_vercel_deploy">>
    /\ Len(steps) = 4

\* C26: whenever orchestrate_mask_stream returns status success, the result
\* carries a processed-content reference and a streaming token, and neither
\* the processing step nor the streaming-setup step returned a failed entry.
\* Stated for the repository's own adapters.
C26_SuccessHasOutputs ==
    (/\ adapters = "source"
     /\ IsMaskRun
     /\ pc = "done"
     /\ result.status = "success")
        => /\ result.swapped_url # "absent"
           /\ result.stream_token # "absent"
           /\ replicate_result.status # "failed"
           /\ agora_result.status # "failed"

\* C27: every AgentDecision of the decision step has a confidence between 0
\* and 1 (0 and 100 percent), whatever content the provider returned.
\* Stated for the repository's own adapters.
C27_ConfidenceInRange ==
    (adapters = "source" /\ IsMaskRun /\ decision # NoDecision)
        => decision.confidence \in 0..100

\* The face-swap request whose prediction Replicate accepted with 201.
PredictionAccepted ==
    /\ request.route = "face_swap"
    /\ env.replicate_token
    /\ Len(external) = 1
    /\ external[1].provider = "replicate"
    /\ external[1].outcome = "ok"

StepWanted(name, stepname) ==
    CASE stepname \in {"stripe_validation", "stripe_customer"} -> config["stripe"]
      [] stepname = "face_swap" -> config["replicate"]
      [] stepname = "vercel_deploy" -> config["vercel"] /\ call.deploy_result
      [] stepname \in {"agora_setup", "agora_token"} -> config["agora"]
      [] stepname = "ai_pipeline" -> config["openai"] /\ config["replicate"]
      [] stepname = "openai_generation" -> config["openai"]
      [] stepname = "replicate_processing" ->
             config["replicate"] /\ call.process_images
      [] stepname = "vercel_deployment" -> config["vercel"]
      [] OTHER -> config["n8n"]

\* The names of the steps of the workflow that are wanted, in its order.
WantedSteps(name) ==
    LET wanted(e) == StepWanted(name, e[2])
        kept == SelectSeq(WorkflowOrder[name], wanted)
    IN [i \in 1..Len(kept) |-> kept[i][2]]

\* C28: a disabled platform or an unset flag only skips its own step: for
\* every combination of enabled platforms and request flags each of the four
\* workflows returns completed with exactly the steps whose platform is
\* enabled and whose flag is set, unless a hard stop occurs.  Stated for the
\* repository's own adapters, a dict as data and a prompt given.
C28_DisabledOnlySkips ==
    (/\ adapters = "source"
     /\ IsWorkflowRun
     /\ call.name \in KnownWorkflows
     /\ call.is_dict
     /\ call.name = "ai_content_generation" => call.prompt
     /\ pc = "done"
     /\ result.reason # "payment_invalid")
        => /\ result.status = "completed"
           /\ [i \in 1..Len(result.steps) |-> result.steps[i].step]
                  = WantedSteps(call.name)

\* C25: a reader of the health table running interleaved with health check
\* cycles sees the table as it was before a cycle's update or as it is after
\* the whole update, never with some entries of the update assigned and
\* others not yet.
C25_NoTornRead ==
    status_report # NoReport =>
        status_report.written = {} \/ status_report.pending = {}

\* The table has been read after the update of a cycle that probed two
\* platforms or more.
C25_Witness ==
    /\ status_report # NoReport
    /\ Cardinality(status_report.written) >= 2
    /\ status_report.pending = {}
    /\ \A p \in status_report.written : status_report.seen[p] # "absent"

\* C30: after any sequence of health check cycles get_orchestration_status
\* reports connected <= enabled <= total, and every platform it lists as
\* connected is an enabled platform whose entry of the table it read has
\* status Connected or Configured.
C30_StatusCounts ==
    status_report # NoReport =>
        /\ status_report.connected <= status_report.enabled
        /\ status_report.enabled <= status_report.total
        /\ status_report.connected = Cardinality(status_report.connected_platforms)
        /\ \A p \in status_report.connected_platforms :
               /\ config[p]
               /\ p \in status_report.enabled_platforms
               /\ status_report.seen[p] \in {"connected", "configured"}

\* The status has been read with an enabled platform whose entry is ERROR:
\* fewer platforms connected than enabled, and one connected.
C30_Witness ==
    /\ status_report # NoReport
    /\ status_report.connected = 1
    /\ status_report.enabled = 2
    /\ \E p \in status_report.enabled_platforms : status_report.seen[p] = "error"

====
